---- MODULE Spec2Model ----
(***************************************************************************)
(* A model of the Historical Options Chain Viewer (polygon_options_viewer). *)
(*                                                                         *)
(* The Streamlit script app.py is rerun on every interaction; what lives   *)
(* across reruns is st.session_state.  The model keeps the session fields  *)
(* the analytics read, the outputs of the dashboard block and of the       *)
(* Credit Spread Calculator block, the results of the library functions    *)
(* of utils/data_formatter.py, and the PolygonOptionsAPI client of         *)
(* utils/polygon_api.py with its memo dictionaries and pagination loops.   *)
(*                                                                         *)
(* Numbers.  Python floats are modelled by exact integers in fixed units:  *)
(*   - calculator strikes and premiums are in cents;                       *)
(*   - the sampled prices of the P&L curve are numerators over             *)
(*     PriceDen = 10 * (NumSamples - 1) cents, the denominator that makes  *)
(*     every np.linspace sample an integer, and the P&L values are         *)
(*     numerators over PriceDen dollars;                                   *)
(*   - chain strikes and stock prices of the dashboard are in dollars;     *)
(*   - ratios are exact rationals <<num, den>>, or hundredths once the     *)
(*     code has rounded them to two decimals.                              *)
(* Floating-point rounding error is outside the model.                     *)
(***************************************************************************)
EXTENDS Integers, Sequences, FiniteSets, TLC

VARIABLES
    pc,                    \* position of the script run: "idle" between reruns
    expirations,           \* st.session_state.expirations
    current_stock_price,   \* st.session_state.current_stock_price
    option_chain,          \* st.session_state.option_chain
    last_params,           \* st.session_state.last_params
    run,                   \* locals of the sidebar block of the current run
    dash,                  \* locals and outputs of the dashboard block
    calc,                  \* locals and outputs of the Credit Spread Calculator
    lib,                   \* the call of a library or client function in progress
    api                    \* the PolygonOptionsAPI client made by get_api_client

vars == <<pc, expirations, current_stock_price, option_chain, last_params,
          run, dash, calc, lib, api>>
session == <<expirations, current_stock_price, option_chain, last_params>>

----------------------------------------------------------------------------
(* Python values *)

\* Python's None and a present value: an optional is a sequence of length <= 1.
None == << >>
Some(v) == <<v>>
IsNone(x) == x = None
Val(x) == x[1]

\* Python truthiness of an optional number: "if x:" is false for None and for 0.
Truthy(x) == x # None /\ x[1] # 0

Max(a, b) == IF a >= b THEN a ELSE b
Min(a, b) == IF a <= b THEN a ELSE b
Abs(a) == IF a >= 0 THEN a ELSE 0 - a

\* str.lower() on the type strings the program handles.
Lower(s) ==
    CASE s = "Call" -> "call"
      [] s = "Put" -> "put"
      [] OTHER -> s

----------------------------------------------------------------------------
(* Bounds and input sets *)

MaxContracts == 2

\* The two options of the calculator's radio widgets.
RadioTypes == {"Call", "Put"}

\* Strike and premium inputs of the calculator, in cents (min_value = 0.0).
StrikeChoices == {0, 10000, 10100, 10500}
PremiumChoices == {0, 50, 200}

\* Closing prices an aggregates request may return, in dollars; None is a
\* request that failed or returned no results.
StockPriceChoices == {95, 105, 125, 200}
FetchResults == {None} \cup {Some(p) : p \in StockPriceChoices}

\* Dates are day numbers.  The "As Of Date" input and the expiration lists
\* get_available_expirations may return for it (ascending, possibly holding
\* the as-of day itself).
AsOfDates == {0}
ExpirationResults == {<< >>, <<0, 7>>}

\* The ticker text input: empty, or a symbol.
TickerChoices == {"", "SPY"}

----------------------------------------------------------------------------
(* utils/data_formatter.py: validate_spread_parameters *)

MsgSameType == "Both legs must be the same type (both Calls or both Puts)"
MsgCallOrder == "For a Call Credit Spread, sell strike must be lower than buy strike"
MsgPutOrder == "For a Put Credit Spread, sell strike must be higher than buy strike"

validate_spread_parameters_equal_accepted(sell_strike, buy_strike, sell_type, buy_type) ==
    IF sell_type # buy_type THEN <<FALSE, MsgSameType>>
    ELSE IF Lower(sell_type) = "call"
         THEN IF sell_strike > buy_strike THEN <<FALSE, MsgCallOrder>> ELSE <<TRUE, "">>
         ELSE IF sell_strike <= buy_strike THEN <<FALSE, MsgPutOrder>> ELSE <<TRUE, "">>

validate_spread_parameters(sell_strike, buy_strike, sell_type, buy_type) ==
    IF sell_type # buy_type THEN <<FALSE, MsgSameType>>
    ELSE IF Lower(sell_type) = "call"
         THEN IF sell_strike >= buy_strike THEN <<FALSE, MsgCallOrder>> ELSE <<TRUE, "">>
         ELSE IF sell_strike <= buy_strike THEN <<FALSE, MsgPutOrder>> ELSE <<TRUE, "">>

----------------------------------------------------------------------------
(* app.py: Credit Spread Calculator *)

DashIdle == [rendered |-> FALSE, no_data |-> FALSE]
LibIdle == [fn |-> "none"]

\* np.linspace(..., 100)
NumSamples == 100
\* Every sampled price is an integer number of 1/PriceDen cents.
PriceDen == 10 * (NumSamples - 1)

MsgSameTypeApp == "Both legs must be the same type (both Calls or both Puts) for a credit spread"

\* np.linspace(min(strikes) * 0.9, max(strikes) * 1.1, 100): sample i (from 1)
\* is lo + (i-1) * (hi - lo) / 99; times PriceDen it is the integer below.
price_range(sell_strike, buy_strike) ==
    LET lo == Min(sell_strike, buy_strike)
        hi == Max(sell_strike, buy_strike)
    IN [i \in 1..NumSamples |->
            9 * lo * (NumSamples - i) + 11 * hi * (i - 1)]

position_pnl_buy_leg_dropped(sell_type, sell_strike, buy_strike, net_credit, contracts, price) ==
    IF sell_type = "Call"
    THEN LET sell_intrinsic == Max(0, price - PriceDen * sell_strike)
         IN (PriceDen * net_credit - sell_intrinsic) * contracts
    ELSE LET sell_intrinsic == Max(0, PriceDen * sell_strike - price)
         IN (PriceDen * net_credit - sell_intrinsic) * contracts

position_pnl_long_short_swapped(sell_type, sell_strike, buy_strike, net_credit, contracts, price) ==
    IF sell_type = "Call"
    THEN LET sell_intrinsic == Max(0, price - PriceDen * sell_strike)
             buy_intrinsic == Max(0, price - PriceDen * buy_strike)
         IN (PriceDen * net_credit + sell_intrinsic - buy_intrinsic) * contracts
    ELSE LET sell_intrinsic == Max(0, PriceDen * sell_strike - price)
             buy_intrinsic == Max(0, PriceDen * buy_strike - price)
         IN (PriceDen * net_credit + sell_intrinsic - buy_intrinsic) * contracts

\* One iteration of the loop over price_range.  price, a per-share amount, is
\* in 1/PriceDen cents; the result, an amount for the position, is in
\* 1/PriceDen dollars, so that the code's factor 100 (shares per contract) is
\* the change of unit from cents to dollars.
position_pnl(sell_type, sell_strike, buy_strike, net_credit, contracts, price) ==
    IF sell_type = "Call"
    THEN LET sell_intrinsic == Max(0, price - PriceDen * sell_strike)
             buy_intrinsic == Max(0, price - PriceDen * buy_strike)
         IN (PriceDen * net_credit - sell_intrinsic + buy_intrinsic) * contracts
    ELSE LET sell_intrinsic == Max(0, PriceDen * sell_strike - price)
             buy_intrinsic == Max(0, PriceDen * buy_strike - price)
         IN (PriceDen * net_credit - sell_intrinsic + buy_intrinsic) * contracts

\* The calculator before "Calculate Spread" is pressed: nothing is computed
\* and nothing is shown.
CalcIdle ==
    [pressed |-> FALSE,
     sell_type |-> None, sell_strike |-> None, sell_premium |-> None,
     buy_type |-> None, buy_strike |-> None, buy_premium |-> None,
     contracts |-> None,
     net_credit |-> None, max_profit |-> None, max_loss |-> None,
     breakeven |-> None, spread_name |-> None, valid_spread |-> None,
     error |-> None, metrics |-> None, risk_reward |-> None,
     price_range |-> None, pnl |-> None, plotted |-> FALSE]

CalcCredit_one_contract(c) ==
    LET net_credit == Val(c.sell_premium) - Val(c.buy_premium)
    IN [c EXCEPT !.net_credit = Some(net_credit),
                 !.max_profit = Some(net_credit * 100)]

\* Lines 600-603: the type check, then net_credit and max_profit.
CalcCredit(c) ==
    LET net_credit == Val(c.sell_premium) - Val(c.buy_premium)
    IN [c EXCEPT !.net_credit = Some(net_credit),
                 !.max_profit = Some(net_credit * 100 * Val(c.contracts))]

CalcStrikes_breakeven_mirrored(c) ==
    LET nc == Val(c.net_credit)
        n == Val(c.contracts)
        ss == Val(c.sell_strike)
        bs == Val(c.buy_strike)
    IN IF Val(c.sell_type) = "Call"
       THEN IF ss < bs
            THEN [c EXCEPT !.max_loss = Some(((bs - ss) - nc) * 100 * n),
                           !.breakeven = Some(ss - nc),
                           !.spread_name = Some("Bear Call Spread"),
                           !.valid_spread = Some(TRUE)]
            ELSE [c EXCEPT !.error = Some(MsgCallOrder),
                           !.valid_spread = Some(FALSE)]
       ELSE IF ss > bs
            THEN [c EXCEPT !.max_loss = Some(((ss - bs) - nc) * 100 * n),
                           !.breakeven = Some(ss + nc),
                           !.spread_name = Some("Bull Put Spread"),
                           !.valid_spread = Some(TRUE)]
            ELSE [c EXCEPT !.error = Some(MsgPutOrder),
                           !.valid_spread = Some(FALSE)]

CalcStrikes_no_order_check(c) ==
    LET nc == Val(c.net_credit)
        n == Val(c.contracts)
        ss == Val(c.sell_strike)
        bs == Val(c.buy_strike)
    IN IF Val(c.sell_type) = "Call"
       THEN [c EXCEPT !.max_loss = Some(((bs - ss) - nc) * 100 * n),
                      !.breakeven = Some(ss + nc),
                      !.spread_name = Some("Bear Call Spread"),
                      !.valid_spread = Some(TRUE)]
       ELSE [c EXCEPT !.max_loss = Some(((ss - bs) - nc) * 100 * n),
                      !.breakeven = Some(ss - nc),
                      !.spread_name = Some("Bull Put Spread"),
                      !.valid_spread = Some(TRUE)]

\* Lines 605-626: the strike-order check per type, max_loss and breakeven.
CalcStrikes(c) ==
    LET nc == Val(c.net_credit)
        n == Val(c.contracts)
        ss == Val(c.sell_strike)
        bs == Val(c.buy_strike)
    IN IF Val(c.sell_type) = "Call"
       THEN IF ss < bs
            THEN [c EXCEPT !.max_loss = Some(((bs - ss) - nc) * 100 * n),
                           !.breakeven = Some(ss + nc),
                           !.spread_name = Some("Bear Call Spread"),
                           !.valid_spread = Some(TRUE)]
            ELSE [c EXCEPT !.error = Some(MsgCallOrder),
                           !.valid_spread = Some(FALSE)]
       ELSE IF ss > bs
            THEN [c EXCEPT !.max_loss = Some(((ss - bs) - nc) * 100 * n),
                           !.breakeven = Some(ss - nc),
                           !.spread_name = Some("Bull Put Spread"),
                           !.valid_spread = Some(TRUE)]
            ELSE [c EXCEPT !.error = Some(MsgPutOrder),
                           !.valid_spread = Some(FALSE)]

\* Lines 632-641: the metrics shown; Max Loss is shown as -abs(max_loss) and
\* the risk/reward ratio |max_profit / max_loss| only when max_loss # 0.
CalcMetrics(c) ==
    [c EXCEPT !.metrics = Some([net_credit |-> Val(c.net_credit),
                                max_profit |-> Val(c.max_profit),
                                max_loss |-> 0 - Abs(Val(c.max_loss)),
                                breakeven |-> Val(c.breakeven)]),
              !.risk_reward = IF Val(c.max_loss) # 0
                              THEN Some(<<Abs(Val(c.max_profit)), Abs(Val(c.max_loss))>>)
                              ELSE None]

\* Lines 643-709: the P&L diagram, drawn only under
\* "if st.session_state.current_stock_price:".
CalcDiagram(c, stock_price) ==
    IF Truthy(stock_price)
    THEN LET pr == price_range(Val(c.sell_strike), Val(c.buy_strike))
         IN [c EXCEPT !.price_range = Some(pr),
                      !.pnl = Some([i \in 1..NumSamples |->
                                      position_pnl(Val(c.sell_type), Val(c.sell_strike),
                                                   Val(c.buy_strike), Val(c.net_credit),
                                                   Val(c.contracts), pr[i])]),
                      !.plotted = TRUE]
    ELSE c

\* Lines 598-711: the handler of the "Calculate Spread" button.
CreditSpreadCalculator(sell_type, sell_strike, sell_premium, buy_type, buy_strike, buy_premium, contracts, stock_price) ==
    LET c0 == [CalcIdle EXCEPT !.pressed = TRUE,
                               !.sell_type = Some(sell_type),
                               !.sell_strike = Some(sell_strike),
                               !.sell_premium = Some(sell_premium),
                               !.buy_type = Some(buy_type),
                               !.buy_strike = Some(buy_strike),
                               !.buy_premium = Some(buy_premium),
                               !.contracts = Some(contracts)]
    IN IF sell_type = buy_type
       THEN LET c2 == CalcStrikes(CalcCredit(c0))
            IN IF Val(c2.valid_spread)
               THEN CalcDiagram(CalcMetrics(c2), stock_price)
               ELSE c2
       ELSE [c0 EXCEPT !.error = Some(MsgSameTypeApp)]

----------------------------------------------------------------------------------------------------------------------------------------------
(* app.py: sidebar *)

\* The slider "Strikes around ATM": st.slider(..., 5, 30, 10).
SliderMin == 5
SliderMax == 30
SliderDefault == 10
\* The slider positions the model tries.
SliderChoices == {SliderMin, SliderMin + 1}

\* The locals of a script run before the sidebar has run.
RunIdle ==
    [ticker |-> "", as_of_date |-> None, selected_expiration |-> None,
     strikes_around_atm |-> SliderDefault, refresh |-> FALSE]

\* Lines 143-149: with a ticker entered, the stock price is fetched, the
\* previous close is tried when that gave nothing, and the result (possibly
\* None) is stored; with no ticker the stored price is left alone.
SidebarStockPrice(ticker, price_result, prev_close_result, stored) ==
    IF ticker # ""
    THEN IF ~Truthy(price_result) THEN prev_close_result ELSE price_result
    ELSE stored

\* Lines 162-163: the expirations later than the as-of date.
valid_expirations(exps, as_of_date) ==
    SelectSeq(exps, LAMBDA e : e - as_of_date > 0)

\* Lines 196-200.
current_params(ticker, as_of_date, selected_expiration) ==
    [ticker |-> ticker, as_of_date |-> as_of_date, expiration |-> selected_expiration]

Sidebar_chain_kept_on_change(price_results, prev_close_results, exp_results, sliders, refreshes) ==
    /\ pc = "idle"
    /\ \E ticker \in TickerChoices, as_of_date \in AsOfDates,
          price_result \in price_results,
          prev_close_result \in prev_close_results,
          exp_result \in exp_results, slider \in sliders,
          refresh \in refreshes :
          LET exps == IF ticker # "" THEN exp_result ELSE expirations
              valid == valid_expirations(exps, as_of_date)
          IN \E choice \in 1..Max(1, Len(valid)) :
                LET selected_expiration ==
                        IF Len(valid) > 0 THEN Some(valid[choice]) ELSE None
                    params == Some(current_params(ticker, as_of_date, selected_expiration))
                    params_changed == params # last_params
                IN /\ Truthy(price_result) => prev_close_result = None
                   /\ current_stock_price' =
                          SidebarStockPrice(ticker, price_result, prev_close_result,
                                            current_stock_price)
                   /\ expirations' = exps
                   /\ last_params' = IF params_changed THEN params ELSE last_params
                   /\ option_chain' = IF refresh THEN None ELSE option_chain
                   /\ run' = [ticker |-> ticker, as_of_date |-> Some(as_of_date),
                              selected_expiration |-> selected_expiration,
                              strikes_around_atm |-> slider, refresh |-> refresh]
    /\ pc' = "main"
    /\ dash' = DashIdle
    /\ calc' = CalcIdle
    /\ UNCHANGED <<lib, api>>

\* Lines 113-239: the sidebar block of one script run.  A rerun redraws the
\* page, so the outputs of the previous run are gone.  The parameters are
\* the inputs of the runs considered: the results the stock price request,
\* the previous close request and the expirations request may give, the
\* slider positions, and whether "Refresh Data" may be pressed.  The previous
\* close is requested only when the stock price request gave nothing.
\* The requests are answered by the client; these runs allow every answer it
\* can give and leave its memo dictionaries aside.
Sidebar(price_results, prev_close_results, exp_results, sliders, refreshes) ==
    /\ pc = "idle"
    /\ \E ticker \in TickerChoices, as_of_date \in AsOfDates,
          price_result \in price_results,
          prev_close_result \in prev_close_results,
          exp_result \in exp_results, slider \in sliders,
          refresh \in refreshes :
          LET exps == IF ticker # "" THEN exp_result ELSE expirations
              valid == valid_expirations(exps, as_of_date)
          IN \E choice \in 1..Max(1, Len(valid)) :
                LET selected_expiration ==
                        IF Len(valid) > 0 THEN Some(valid[choice]) ELSE None
                    params == Some(current_params(ticker, as_of_date, selected_expiration))
                    params_changed == params # last_params
                IN /\ Truthy(price_result) => prev_close_result = None
                   /\ current_stock_price' =
                          SidebarStockPrice(ticker, price_result, prev_close_result,
                                            current_stock_price)
                   /\ expirations' = exps
                   /\ last_params' = IF params_changed THEN params ELSE last_params
                   /\ option_chain' = IF params_changed \/ refresh
                                      THEN None ELSE option_chain
                   /\ run' = [ticker |-> ticker, as_of_date |-> Some(as_of_date),
                              selected_expiration |-> selected_expiration,
                              strikes_around_atm |-> slider, refresh |-> refresh]
    /\ pc' = "main"
    /\ dash' = DashIdle
    /\ calc' = CalcIdle
    /\ UNCHANGED <<lib, api>>

\* Line 242, condition false: no ticker or no expiration selected, the main
\* content area is skipped.
MainContentSkipped ==
    /\ pc = "main"
    /\ ~(run.ticker # "" /\ run.selected_expiration # None)
    /\ pc' = "calculator"
    /\ UNCHANGED <<session, run, dash, calc, lib, api>>

\* Line 598, button not pressed: the calculator shows its inputs only.
CalculatorNotPressed ==
    /\ pc = "calculator"
    /\ pc' = "idle"
    /\ UNCHANGED <<session, run, dash, calc, lib, api>>

\* Line 598, "Calculate Spread" pressed with the widget values chosen.
CalculateSpread ==
    /\ pc = "calculator"
    /\ \E sell_type \in RadioTypes, buy_type \in RadioTypes,
          sell_strike \in StrikeChoices, buy_strike \in StrikeChoices,
          sell_premium \in PremiumChoices, buy_premium \in PremiumChoices,
          contracts \in 1..MaxContracts :
          calc' = CreditSpreadCalculator(sell_type, sell_strike, sell_premium,
                                         buy_type, buy_strike, buy_premium,
                                         contracts, current_stock_price)
    /\ pc' = "idle"
    /\ UNCHANGED <<session, run, dash, lib, api>>

----------------------------------------------------------------------------
(* utils/polygon_api.py: the client *)

\* The keys of the memo dictionaries: a ticker and a date.  The calls on the
\* client are made for one ticker.
CacheKeys == {"SPY"} \X AsOfDates

\* PolygonOptionsAPI(api_key, s3_access_key, s3_secret_key): the client has an
\* S3 client when both S3 keys are given.  _price_cache and _expiration_cache
\* are dictionaries made on first use; a key that is not in the dictionary
\* maps to None here.
NewClient(s3_keys) ==
    [s3_client |-> s3_keys,
     _price_cache |-> [k \in CacheKeys |-> None],
     _expiration_cache |-> [k \in CacheKeys |-> None]]

----------------------------------------------------------------------------
(* The calculator: script runs in which no expiration is on offer, so that *)
(* the main content area is skipped.                                       *)

InitApp ==
    /\ pc = "idle"
    /\ expirations = << >>
    /\ current_stock_price = None
    /\ option_chain = None
    /\ last_params = None
    /\ run = RunIdle
    /\ dash = DashIdle
    /\ calc = CalcIdle
    /\ lib = LibIdle
    /\ api \in {NewClient(s3_keys) : s3_keys \in BOOLEAN}

\* The results of the price requests in the calculator's runs.
SpreadPriceResults == {None, Some(105)}

SidebarNoExpirations ==
    Sidebar(SpreadPriceResults, SpreadPriceResults, {<< >>}, {SliderDefault}, {FALSE})

NextSpread ==
    \/ SidebarNoExpirations
    \/ MainContentSkipped
    \/ CalculatorNotPressed
    \/ CalculateSpread

SpecSpread == InitApp /\ [][NextSpread]_vars

----------------------------------------------------------------------------
(* Option chains *)

\* One row of an option chain DataFrame; strike in dollars.
Row(type, strike, volume, open_interest) ==
    [type |-> type, strike |-> strike, volume |-> volume,
     open_interest |-> open_interest]

\* option_chain[option_chain['type'] == type]
RowsOfType(chain, type) == SelectSeq(chain, LAMBDA r : r.type = type)

\* frame[frame['strike'].isin(strikes)]
RowsWithStrikeIn(chain, strikes) ==
    SelectSeq(chain, LAMBDA r : \E i \in DOMAIN strikes : strikes[i] = r.strike)

\* frame[col].sum(); the sum of an empty column is 0.
RECURSIVE ColumnSum(_, _)
ColumnSum(chain, col) ==
    IF chain = << >> THEN 0 ELSE Head(chain)[col] + ColumnSum(Tail(chain), col)

\* sorted(...) of a set of numbers: the element at position i is the one
\* with i - 1 elements below it.
SortedSeq(S) ==
    [i \in 1..Cardinality(S) |->
        CHOOSE x \in S : Cardinality({y \in S : y < x}) = i - 1]

\* sorted(option_chain['strike'].unique())
sorted_unique_strikes(chain) ==
    SortedSeq({chain[i].strike : i \in DOMAIN chain})

RECURSIVE MinByDistanceFrom_last_on_tie(_, _, _, _)
MinByDistanceFrom_last_on_tie(strikes, price, i, best) ==
    IF i > Len(strikes) THEN best
    ELSE MinByDistanceFrom_last_on_tie(strikes, price, i + 1,
             IF Abs(strikes[i] - price) <= Abs(best - price)
             THEN strikes[i] ELSE best)

closest_strike_last_on_tie(strikes, price) ==
    MinByDistanceFrom_last_on_tie(strikes, price, 2, strikes[1])

\* Python's min(iterable, key=...): the items are visited in order and the
\* candidate is replaced only by an item with a strictly smaller key.
RECURSIVE MinByDistanceFrom(_, _, _, _)
MinByDistanceFrom(strikes, price, i, best) ==
    IF i > Len(strikes) THEN best
    ELSE MinByDistanceFrom(strikes, price, i + 1,
             IF Abs(strikes[i] - price) < Abs(best - price)
             THEN strikes[i] ELSE best)

\* min(strikes, key=lambda x: abs(x - price)) on a non-empty list.
closest_strike(strikes, price) ==
    MinByDistanceFrom(strikes, price, 2, strikes[1])

\* list.index(x): the 0-based position of the first occurrence.
ListIndex(seq, x) ==
    (CHOOSE i \in DOMAIN seq : seq[i] = x /\ \A j \in 1..(i - 1) : seq[j] # x) - 1

\* seq[start:end] with 0 <= start and end <= len(seq).
Slice(seq, start, end) == SubSeq(seq, start + 1, end)

\* round(num / den, 2) and f"{num / den:.2f}" in hundredths: the nearest
\* hundredth, an exact tie going to the even one.  (A tie needs a reduced
\* denominator of 8, 40 or 200; with 8 the quotient is exact in binary and
\* Python rounds it half-even, as here.)
Round2(num, den) ==
    LET q == (100 * num) \div den
        rem == (100 * num) % den
    IN IF 2 * rem > den THEN q + 1
       ELSE IF 2 * rem < den THEN q
       ELSE IF q % 2 = 0 THEN q ELSE q + 1

----------------------------------------------------------------------------
(* app.py: the dashboard (main content area) *)

\* A metric that shows "N/A", and one that shows a number of hundredths.
MetricNA == [na |-> TRUE, value |-> 0]
Metric(v) == [na |-> FALSE, value |-> v]

DashboardTotals_displayed_only(chain, display_strikes) ==
    LET shown == RowsWithStrikeIn(chain, display_strikes)
    IN [total_call_volume |-> ColumnSum(RowsOfType(shown, "call"), "volume"),
        total_call_oi |-> ColumnSum(RowsOfType(shown, "call"), "open_interest"),
        total_put_volume |-> ColumnSum(RowsOfType(shown, "put"), "volume"),
        total_put_oi |-> ColumnSum(RowsOfType(shown, "put"), "open_interest")]

\* Lines 448-455: the totals, from the full option chain.
DashboardTotals(chain, display_strikes) ==
    [total_call_volume |-> ColumnSum(RowsOfType(chain, "call"), "volume"),
     total_call_oi |-> ColumnSum(RowsOfType(chain, "call"), "open_interest"),
     total_put_volume |-> ColumnSum(RowsOfType(chain, "put"), "volume"),
     total_put_oi |-> ColumnSum(RowsOfType(chain, "put"), "open_interest")]

\* Lines 274-286: the strikes displayed.  atm_distance_pct > 20 is
\* 100 * |atm_strike - stock_price| > 20 * stock_price.
DisplayStrikes(strikes, atm_strike, atm_index, stock_price, strikes_around_atm) ==
    IF 100 * Abs(atm_strike - stock_price) > 20 * stock_price
    THEN strikes
    ELSE LET start_idx == Max(0, atm_index - strikes_around_atm)
             end_idx == Min(Len(strikes), atm_index + strikes_around_atm + 1)
         IN Slice(strikes, start_idx, end_idx)

\* Lines 467-481: a ratio as the local variable holds it (a rational; the
\* number 0 when the call total is 0) and as the metric shows it.
PcRatioLocal(total_put, total_call) ==
    IF total_call > 0 THEN <<total_put, total_call>> ELSE <<0, 1>>

PcRatioMetric(total_put, total_call) ==
    IF total_call > 0 THEN Metric(Round2(total_put, total_call)) ELSE MetricNA

\* Lines 486-489: the ratios kept are those > 0, and their mean.
SentimentAverage(pc_ratio_volume, pc_ratio_oi) ==
    IF pc_ratio_volume[1] > 0 /\ pc_ratio_oi[1] > 0
    THEN Some(<<pc_ratio_volume[1] * pc_ratio_oi[2] + pc_ratio_oi[1] * pc_ratio_volume[2],
                2 * pc_ratio_volume[2] * pc_ratio_oi[2]>>)
    ELSE IF pc_ratio_volume[1] > 0 THEN Some(pc_ratio_volume)
    ELSE IF pc_ratio_oi[1] > 0 THEN Some(pc_ratio_oi)
    ELSE None

\* Lines 491-501: the label; avg > 1.2 is 5 * num > 6 * den and avg < 0.8 is
\* 5 * num < 4 * den.
SentimentLabel(avg) ==
    IF avg = None THEN "N/A"
    ELSE IF 5 * Val(avg)[1] > 6 * Val(avg)[2] THEN "Bearish"
    ELSE IF 5 * Val(avg)[1] < 4 * Val(avg)[2] THEN "Bullish"
    ELSE "Neutral"

\* The dashboard when the chain is empty or no stock price is stored
\* (lines 539-541): a warning and nothing else.
DashNoData == [rendered |-> FALSE, no_data |-> TRUE]

\* Lines 251-501 for a non-empty chain and a stock price: ATM strike, the
\* strikes displayed, the totals, the ratios and the sentiment.  (The table
\* formatting and the "Most Active Options" lists derive from these and are
\* left out.)
Dashboard(chain, stock_price, strikes_around_atm) ==
    LET strikes == sorted_unique_strikes(chain)
        atm_strike == closest_strike(strikes, stock_price)
        atm_index == ListIndex(strikes, atm_strike)
        display_strikes == DisplayStrikes(strikes, atm_strike, atm_index,
                                          stock_price, strikes_around_atm)
        totals == DashboardTotals(chain, display_strikes)
        pc_ratio_volume == PcRatioLocal(totals.total_put_volume, totals.total_call_volume)
        pc_ratio_oi == PcRatioLocal(totals.total_put_oi, totals.total_call_oi)
        avg_pc_ratio == SentimentAverage(pc_ratio_volume, pc_ratio_oi)
    IN [rendered |-> TRUE, no_data |-> FALSE,
        stock_price |-> stock_price,
        strikes_around_atm |-> strikes_around_atm,
        strikes |-> strikes,
        atm_strike |-> atm_strike,
        atm_index |-> atm_index,
        display_strikes |-> display_strikes,
        calls_display |-> RowsWithStrikeIn(RowsOfType(chain, "call"), display_strikes),
        puts_display |-> RowsWithStrikeIn(RowsOfType(chain, "put"), display_strikes),
        total_call_volume |-> totals.total_call_volume,
        total_call_oi |-> totals.total_call_oi,
        total_put_volume |-> totals.total_put_volume,
        total_put_oi |-> totals.total_put_oi,
        pc_ratio_volume |-> pc_ratio_volume,
        pc_ratio_oi |-> pc_ratio_oi,
        pc_ratio_volume_metric |->
            PcRatioMetric(totals.total_put_volume, totals.total_call_volume),
        pc_ratio_oi_metric |->
            PcRatioMetric(totals.total_put_oi, totals.total_call_oi),
        avg_pc_ratio |-> avg_pc_ratio,
        sentiment |-> SentimentLabel(avg_pc_ratio)]

\* Lines 251 and 539: the dashboard is drawn only for a non-empty chain and a
\* truthy stored stock price.
MainContent(chain) ==
    IF chain # << >> /\ Truthy(current_stock_price)
    THEN Dashboard(chain, Val(current_stock_price), run.strikes_around_atm)
    ELSE DashNoData

\* Chains get_option_chain may return for the dashboard's runs: a ladder of n
\* strikes 100, 110, ... with a call and/or a put at every strike, every call
\* carrying (cv, co) and every put (pv, po) as volume and open interest; rows
\* come highest strike first.
MaxStrikes == 7
MaxVolume == 2
OpenInterestChoices == {0, 1}
LadderStrike(k) == 100 + 10 * (k - 1)

RECURSIVE LadderChain(_, _, _, _, _, _)
LadderChain(n, sides, cv, co, pv, po) ==
    IF n = 0 THEN << >>
    ELSE (IF sides # "puts" THEN <<Row("call", LadderStrike(n), cv, co)>> ELSE << >>)
         \o (IF sides # "calls" THEN <<Row("put", LadderStrike(n), pv, po)>> ELSE << >>)
         \o LadderChain(n - 1, sides, cv, co, pv, po)

DashChains ==
    {LadderChain(n, sides, cv, co, pv, po) :
        n \in 0..MaxStrikes, sides \in {"both", "calls", "puts"},
        cv \in 0..MaxVolume, co \in OpenInterestChoices,
        pv \in 0..MaxVolume, po \in OpenInterestChoices}

\* Lines 244-247: no chain is stored, so one is fetched and stored.
MainContentFetch ==
    /\ pc = "main"
    /\ run.ticker # "" /\ run.selected_expiration # None
    /\ option_chain = None
    /\ \E fetched \in DashChains :
          /\ option_chain' = Some(fetched)
          /\ dash' = MainContent(fetched)
    /\ pc' = "calculator"
    /\ UNCHANGED <<expirations, current_stock_price, last_params, run, calc, lib, api>>

\* Lines 248-249: the stored chain is used again.
MainContentStored ==
    /\ pc = "main"
    /\ run.ticker # "" /\ run.selected_expiration # None
    /\ option_chain # None
    /\ dash' = MainContent(Val(option_chain))
    /\ pc' = "calculator"
    /\ UNCHANGED <<session, run, calc, lib, api>>

SidebarDashboard ==
    Sidebar(FetchResults, {None, Some(105)}, ExpirationResults, SliderChoices, BOOLEAN)

\* The dashboard: script runs in which "Calculate Spread" is not pressed.
NextDash ==
    \/ SidebarDashboard
    \/ MainContentSkipped
    \/ MainContentFetch
    \/ MainContentStored
    \/ CalculatorNotPressed

SpecDash == InitApp /\ [][NextDash]_vars

----------------------------------------------------------------------------
(* utils/data_formatter.py: library functions, called on their own *)

EmptyMetrics ==
    [total_call_volume |-> 0, total_put_volume |-> 0,
     total_call_oi |-> 0, total_put_oi |-> 0,
     pc_ratio_volume |-> 0, pc_ratio_oi |-> 0,
     avg_iv_calls |-> 0, avg_iv_puts |-> 0, num_contracts |-> 0]

\* aggregate_option_metrics on a chain without an implied_volatility column
\* (the averages of that column then stay 0).  The ratios are in hundredths
\* after round(..., 2).
aggregate_option_metrics(chain) ==
    IF chain = << >> THEN EmptyMetrics
    ELSE LET calls == RowsOfType(chain, "call")
             puts == RowsOfType(chain, "put")
             total_call_volume == IF calls # << >> THEN ColumnSum(calls, "volume") ELSE 0
             total_put_volume == IF puts # << >> THEN ColumnSum(puts, "volume") ELSE 0
             total_call_oi == IF calls # << >> THEN ColumnSum(calls, "open_interest") ELSE 0
             total_put_oi == IF puts # << >> THEN ColumnSum(puts, "open_interest") ELSE 0
         IN [total_call_volume |-> total_call_volume,
             total_put_volume |-> total_put_volume,
             total_call_oi |-> total_call_oi,
             total_put_oi |-> total_put_oi,
             pc_ratio_volume |-> IF total_call_volume > 0
                                 THEN Round2(total_put_volume, total_call_volume) ELSE 0,
             pc_ratio_oi |-> IF total_call_oi > 0
                             THEN Round2(total_put_oi, total_call_oi) ELSE 0,
             avg_iv_calls |-> 0, avg_iv_puts |-> 0,
             num_contracts |-> Len(chain)]

\* determine_market_sentiment; the ratios are in hundredths, and so
\* avg_pc_ratio > 1.2 is 2 * avg > 240, and so on.
determine_market_sentiment(pc_ratio_volume, pc_ratio_oi) ==
    IF pc_ratio_volume <= 0 /\ pc_ratio_oi <= 0 THEN "No Data"
    ELSE LET twice_avg == IF pc_ratio_volume > 0 /\ pc_ratio_oi > 0
                          THEN pc_ratio_volume + pc_ratio_oi
                          ELSE IF pc_ratio_volume > 0 THEN 2 * pc_ratio_volume
                          ELSE 2 * pc_ratio_oi
         IN IF twice_avg > 240 THEN "Bearish"
            ELSE IF twice_avg > 200 THEN "Slightly Bearish"
            ELSE IF twice_avg < 140 THEN "Bullish"
            ELSE IF twice_avg < 180 THEN "Slightly Bullish"
            ELSE "Neutral"

get_strike_range_around_atm_end_exclusive(strikes, current_price, num_strikes) ==
    IF strikes = << >>
    THEN [atm_strike |-> None, atm_index |-> None, result |-> << >>]
    ELSE LET atm_strike == closest_strike(strikes, current_price)
             atm_index == ListIndex(strikes, atm_strike)
             start_idx == Max(0, atm_index - num_strikes)
             end_idx == Min(Len(strikes), atm_index + num_strikes)
         IN [atm_strike |-> Some(atm_strike), atm_index |-> Some(atm_index),
             result |-> Slice(strikes, start_idx, end_idx)]

\* get_strike_range_around_atm, with its locals.
get_strike_range_around_atm(strikes, current_price, num_strikes) ==
    IF strikes = << >>
    THEN [atm_strike |-> None, atm_index |-> None, result |-> << >>]
    ELSE LET atm_strike == closest_strike(strikes, current_price)
             atm_index == ListIndex(strikes, atm_strike)
             start_idx == Max(0, atm_index - num_strikes)
             end_idx == Min(Len(strikes), atm_index + num_strikes + 1)
         IN [atm_strike |-> Some(atm_strike), atm_index |-> Some(atm_index),
             result |-> Slice(strikes, start_idx, end_idx)]

\* round(x, 2) for x > 0 given in millionths of a dollar, in cents: the
\* nearest cent.  When x is exactly halfway between two cents the float that
\* holds it lies on either side, so either cent can come out
\* (round(0.6 - 0.045, 2) is 0.55, round(0.12 + 0.015, 2) is 0.14).
RoundToCents(x) ==
    LET q == x \div 10000
        rem == x % 10000
    IN IF rem > 5000 THEN {q + 1}
       ELSE IF rem < 5000 THEN {q}
       ELSE {q, q + 1}

\* Lines 136-145: the spread percentage, in tenths of a percent.
spread_pct(volume) ==
    IF volume > 10000 THEN 20
    ELSE IF volume > 1000 THEN 40
    ELSE IF volume > 100 THEN 80
    ELSE IF volume > 10 THEN 150
    ELSE 250

estimate_bid_ask_spread_tiers_inclusive(last_price, volume) ==
    IF last_price <= 0 THEN {<<0, 0>>}
    ELSE LET pct == IF volume >= 10000 THEN 20
                    ELSE IF volume >= 1000 THEN 40
                    ELSE IF volume >= 100 THEN 80
                    ELSE IF volume >= 10 THEN 150
                    ELSE 250
             half_spread == (last_price * pct) \div 2
         IN {<<Max(1, bid), ask>> :
                bid \in RoundToCents(1000 * last_price - half_spread),
                ask \in RoundToCents(1000 * last_price + half_spread)}

estimate_bid_ask_spread_bid_unfloored(last_price, volume) ==
    IF last_price <= 0 THEN {<<0, 0>>}
    ELSE LET half_spread == (last_price * spread_pct(volume)) \div 2
         IN {<<bid, ask>> :
                bid \in RoundToCents(1000 * last_price - half_spread),
                ask \in RoundToCents(1000 * last_price + half_spread)}

estimate_bid_ask_spread_zero_price_estimated(last_price, volume) ==
    IF last_price < 0 THEN {<<0, 0>>}
    ELSE LET half_spread == (last_price * spread_pct(volume)) \div 2
         IN {<<Max(1, bid), ask>> :
                bid \in RoundToCents(1000 * last_price - half_spread),
                ask \in RoundToCents(1000 * last_price + half_spread)}

\* estimate_bid_ask_spread: last_price in thousandths of a dollar, half_spread
\* in millionths, the (bid, ask) pairs that can be returned in cents.
estimate_bid_ask_spread(last_price, volume) ==
    IF last_price <= 0 THEN {<<0, 0>>}
    ELSE LET half_spread == (last_price * spread_pct(volume)) \div 2
         IN {<<Max(1, bid), ask>> :
                bid \in RoundToCents(1000 * last_price - half_spread),
                ask \in RoundToCents(1000 * last_price + half_spread)}

\* The largest power of two that is <= x, for x >= 1.
RECURSIVE Pow2Floor(_)
Pow2Floor(x) == IF x < 2 THEN 1 ELSE 2 * Pow2Floor(x \div 2)

\* Line 177 and the band edges of lines 180-185, as the floats compute them.
\* Prices are in eighths of a dollar and strikes are multiples of 25 dollars,
\* so that every input and both exact edges, strike * 1.005 and strike *
\* 0.995, are binary fractions.  The double 1 + 0.5/100 is 1.005 less 0.48
\* units in its last place, and strike * (1 + 0.5/100) then rounds to the
\* double just below strike * 1.005 whenever 0.96 * strike exceeds the power
\* of two at or below that edge; otherwise it is the edge.
\* strike * (1 - 0.5/100) always rounds to strike * 0.995.
UpperEdgeRoundsDown(strike) ==
    24 * strike > 25 * Pow2Floor((201 * strike) \div 200)

\* stock_price > strike * (1 + atm_threshold/100)
AboveUpperEdge(stock_price, strike) ==
    \/ 200 * stock_price > 201 * strike
    \/ 200 * stock_price = 201 * strike /\ UpperEdgeRoundsDown(strike)

\* stock_price < strike * (1 - atm_threshold/100)
BelowLowerEdge(stock_price, strike) == 200 * stock_price < 199 * strike

ZeroMoneyness ==
    [moneyness_pct |-> <<0, 1>>, is_itm |-> FALSE, is_atm |-> FALSE,
     is_otm |-> FALSE, intrinsic_value |-> 0]

calculate_moneyness_zero_accepted(stock_price, strike, option_type) ==
    IF stock_price < 0 \/ strike < 0 THEN ZeroMoneyness
    ELSE LET call == Lower(option_type) = "call"
             is_itm == IF call THEN AboveUpperEdge(stock_price, strike)
                       ELSE BelowLowerEdge(stock_price, strike)
             is_otm == IF call THEN BelowLowerEdge(stock_price, strike)
                       ELSE AboveUpperEdge(stock_price, strike)
         IN [moneyness_pct |-> <<100 * (stock_price - strike), stock_price>>,
             is_itm |-> is_itm,
             is_atm |-> ~is_itm /\ ~is_otm,
             is_otm |-> is_otm,
             intrinsic_value |-> IF call THEN Max(0, stock_price - strike)
                                 ELSE Max(0, strike - stock_price)]

calculate_moneyness_intrinsic_signed(stock_price, strike, option_type) ==
    IF stock_price <= 0 \/ strike <= 0 THEN ZeroMoneyness
    ELSE LET call == Lower(option_type) = "call"
             is_itm == IF call THEN AboveUpperEdge(stock_price, strike)
                       ELSE BelowLowerEdge(stock_price, strike)
             is_otm == IF call THEN BelowLowerEdge(stock_price, strike)
                       ELSE AboveUpperEdge(stock_price, strike)
         IN [moneyness_pct |-> <<100 * (stock_price - strike), stock_price>>,
             is_itm |-> is_itm,
             is_atm |-> ~is_itm /\ ~is_otm,
             is_otm |-> is_otm,
             intrinsic_value |-> IF call THEN stock_price - strike
                                 ELSE strike - stock_price]

\* calculate_moneyness; moneyness_pct is the rational <<num, den>>.
calculate_moneyness(stock_price, strike, option_type) ==
    IF stock_price <= 0 \/ strike <= 0 THEN ZeroMoneyness
    ELSE LET call == Lower(option_type) = "call"
             is_itm == IF call THEN AboveUpperEdge(stock_price, strike)
                       ELSE BelowLowerEdge(stock_price, strike)
             is_otm == IF call THEN BelowLowerEdge(stock_price, strike)
                       ELSE AboveUpperEdge(stock_price, strike)
         IN [moneyness_pct |-> <<100 * (stock_price - strike), stock_price>>,
             is_itm |-> is_itm,
             is_atm |-> ~is_itm /\ ~is_otm,
             is_otm |-> is_otm,
             intrinsic_value |-> IF call THEN Max(0, stock_price - strike)
                                 ELSE Max(0, strike - stock_price)]

\* utils/polygon_api.py: the Black-Scholes evaluator.  S and K are whole
\* dollars, T is in quarters of a year, r, sigma, d1, d2 and the values of
\* np.log, np.sqrt, np.exp, norm.cdf and norm.pdf are in units of 1/Scale,
\* Greeks are in units of 1/Scale (four decimals) and prices in units of
\* 1/Scale^2.
Scale == 10000

\* A float: finite, NaN or an infinity.
Fin(v) == [k |-> "fin", v |-> v]
NaN == [k |-> "nan", v |-> 0]
NegInf == [k |-> "neg_inf", v |-> 0]
PosInf == [k |-> "pos_inf", v |-> 0]
ZeroDivisionError == [k |-> "ZeroDivisionError", v |-> 0]

\* a / b for b > 0, to the nearest integer, a tie to the even one.
RoundDiv(a, b) ==
    LET q == a \div b
        rem == a % b
    IN IF 2 * rem > b THEN q + 1
       ELSE IF 2 * rem < b THEN q
       ELSE IF q % 2 = 0 THEN q ELSE q + 1

\* np.log(S / K) for a finite positive S / K of 1/2, 1 or 2.
LnRatio(S, K) ==
    CASE Abs(S) = Abs(K) -> 0
      [] Abs(S) = 2 * Abs(K) -> 6931
      [] 2 * Abs(S) = Abs(K) -> 0 - 6931

\* np.log(S / K).  S / K with K = 0 raises ZeroDivisionError on Python
\* numbers and is an infinity or NaN on numpy numbers; the logarithm of 0 is
\* -inf and that of a negative number NaN.
LogOfRatio(S, K) ==
    IF K = 0 THEN {ZeroDivisionError, IF S > 0 THEN PosInf ELSE NaN}
    ELSE IF S = 0 THEN {NegInf}
    ELSE IF (S > 0) # (K > 0) THEN {NaN}
    ELSE {Fin(LnRatio(S, K))}

\* np.sqrt(T) for T > 0 of one or four quarters.
SqrtT(T) == CASE T = 1 -> 5000 [] T = 4 -> 10000

\* np.exp(-r * T) for r * T of 0, 0.0125 and 0.05.
ExpNeg(rT) == CASE rT = 0 -> 10000 [] rT = 125 -> 9876 [] rT = 500 -> 9512

\* norm.cdf and norm.pdf at the arguments that occur, to four decimals.
NormCdfTable ==
    0 :> 5000 @@ 375 :> 5150 @@ 500 :> 5199 @@ 750 :> 5299 @@
    1000 :> 5398 @@ 1500 :> 5596 @@ 1625 :> 5645 @@ 1750 :> 5695 @@
    2000 :> 5793 @@ 3250 :> 6274 @@ 3500 :> 6368 @@ 4000 :> 6554 @@
    14078 :> 9204 @@ 15328 :> 9373 @@ 16578 :> 9513 @@ 18078 :> 9647 @@
    19328 :> 9734 @@ 20578 :> 9802 @@ 31155 :> 9991 @@ 33030 :> 9995 @@
    33155 :> 9995 @@ 33655 :> 9996 @@ 34280 :> 9997 @@ 35030 :> 9998 @@
    35655 :> 9998 @@ 36155 :> 9999 @@ 36280 :> 9999 @@ 38155 :> 9999 @@
    67560 :> 10000 @@ 68560 :> 10000 @@ 68810 :> 10000 @@ 69810 :> 10000 @@
    70060 :> 10000 @@ 71060 :> 10000

NormPdfTable ==
    0 :> 3989 @@ 375 :> 3987 @@ 500 :> 3984 @@ 750 :> 3978 @@
    1000 :> 3970 @@ 1500 :> 3945 @@ 1625 :> 3937 @@ 1750 :> 3929 @@
    2000 :> 3910 @@ 3250 :> 3784 @@ 3500 :> 3752 @@ 4000 :> 3683 @@
    14078 :> 1481 @@ 15328 :> 1232 @@ 16578 :> 1010 @@ 18078 :> 778 @@
    19328 :> 616 @@ 20578 :> 480 @@ 31155 :> 31 @@ 33030 :> 17 @@
    33155 :> 16 @@ 33655 :> 14 @@ 34280 :> 11 @@ 35030 :> 9 @@
    35655 :> 7 @@ 36155 :> 6 @@ 36280 :> 6 @@ 38155 :> 3 @@ 67560 :> 0 @@
    68560 :> 0 @@ 68810 :> 0 @@ 69810 :> 0 @@ 70060 :> 0 @@ 71060 :> 0

NormCdf(d) ==
    CASE d.k = "fin" -> IF d.v >= 0 THEN NormCdfTable[d.v]
                        ELSE Scale - NormCdfTable[0 - d.v]
      [] d.k = "neg_inf" -> 0
      [] d.k = "pos_inf" -> Scale

NormPdf(d) ==
    CASE d.k = "fin" -> NormPdfTable[Abs(d.v)]
      [] d.k \in {"neg_inf", "pos_inf"} -> 0

\* -d and d - x for a float d that is not NaN.
Neg(d) ==
    CASE d.k = "fin" -> Fin(0 - d.v)
      [] d.k = "neg_inf" -> PosInf
      [] d.k = "pos_inf" -> NegInf

Minus(d, x) == IF d.k = "fin" THEN Fin(d.v - x) ELSE d

\* sigma * np.sqrt(T)
SigmaSqrtT(T, sigma) == RoundDiv(sigma * SqrtT(T), Scale)

\* (np.log(S / K) + (r + 0.5 * sigma ** 2) * T) / (sigma * np.sqrt(T)) for
\* T > 0 and sigma > 0: the values d1 can take.
D1Values(S, K, T, r, sigma) ==
    LET drift == RoundDiv((r + RoundDiv(RoundDiv(sigma * sigma, Scale), 2)) * T, 4)
    IN {IF ln.k = "fin"
        THEN Fin(RoundDiv((ln.v + drift) * Scale, SigmaSqrtT(T, sigma)))
        ELSE ln : ln \in LogOfRatio(S, K)}

\* Lines 116-120.
_d1(S, K, T, r, sigma) ==
    IF T <= 0 \/ sigma <= 0 THEN {Fin(0)} ELSE D1Values(S, K, T, r, sigma)

\* A signed quotient to the nearest integer; 0 / 0 is NaN.
FloatDiv(a, b) ==
    IF b = 0 THEN NaN
    ELSE IF b > 0 THEN Fin(RoundDiv(a, b)) ELSE Fin(RoundDiv(0 - a, 0 - b))

\* Line 70.
ZeroGreeks ==
    [raised |-> "none", delta |-> Fin(0), gamma |-> Fin(0), theta |-> Fin(0),
     vega |-> Fin(0), rho |-> Fin(0)]

NaNGreeks ==
    [raised |-> "none", delta |-> NaN, gamma |-> NaN, theta |-> NaN,
     vega |-> NaN, rho |-> NaN]

GreeksAt_put_delta_unshifted(S, K, T, r, sigma, option_type, d1) ==
    IF d1.k = "ZeroDivisionError" THEN [raised |-> "ZeroDivisionError"]
    ELSE IF d1.k = "nan" THEN NaNGreeks
    ELSE LET d2 == Minus(d1, SigmaSqrtT(T, sigma))
             decay == RoundDiv(0 - S * NormPdf(d1) * sigma, 2 * SqrtT(T))
             rK == RoundDiv(r * K * ExpNeg(RoundDiv(r * T, 4)), Scale)
             KT == K * T * ExpNeg(RoundDiv(r * T, 4))
             call == Lower(option_type) = "call"
         IN [raised |-> "none",
             delta |-> Fin(NormCdf(d1)),
             gamma |-> FloatDiv(NormPdf(d1) * Scale, S * SigmaSqrtT(T, sigma)),
             theta |-> Fin(IF call
                           THEN RoundDiv(decay - RoundDiv(rK * NormCdf(d2), Scale), 365)
                           ELSE RoundDiv(decay + RoundDiv(rK * NormCdf(Neg(d2)), Scale), 365)),
             vega |-> Fin(RoundDiv(S * NormPdf(d1) * SqrtT(T), Scale * 100)),
             rho |-> Fin(IF call
                         THEN RoundDiv(KT * NormCdf(d2), 4 * Scale * 100)
                         ELSE RoundDiv(0 - KT * NormCdf(Neg(d2)), 4 * Scale * 100))]

\* Lines 73-96 for a given d1: every Greek is NaN when d1 is; gamma is 0 / 0
\* when S = 0.
GreeksAt(S, K, T, r, sigma, option_type, d1) ==
    IF d1.k = "ZeroDivisionError" THEN [raised |-> "ZeroDivisionError"]
    ELSE IF d1.k = "nan" THEN NaNGreeks
    ELSE LET d2 == Minus(d1, SigmaSqrtT(T, sigma))
             decay == RoundDiv(0 - S * NormPdf(d1) * sigma, 2 * SqrtT(T))
             rK == RoundDiv(r * K * ExpNeg(RoundDiv(r * T, 4)), Scale)
             KT == K * T * ExpNeg(RoundDiv(r * T, 4))
             call == Lower(option_type) = "call"
         IN [raised |-> "none",
             delta |-> Fin(IF call THEN NormCdf(d1) ELSE NormCdf(d1) - Scale),
             gamma |-> FloatDiv(NormPdf(d1) * Scale, S * SigmaSqrtT(T, sigma)),
             theta |-> Fin(IF call
                           THEN RoundDiv(decay - RoundDiv(rK * NormCdf(d2), Scale), 365)
                           ELSE RoundDiv(decay + RoundDiv(rK * NormCdf(Neg(d2)), Scale), 365)),
             vega |-> Fin(RoundDiv(S * NormPdf(d1) * SqrtT(T), Scale * 100)),
             rho |-> Fin(IF call
                         THEN RoundDiv(KT * NormCdf(d2), 4 * Scale * 100)
                         ELSE RoundDiv(0 - KT * NormCdf(Neg(d2)), 4 * Scale * 100))]

calculate_greeks_sigma_unchecked(S, K, T, r, sigma, option_type) ==
    IF T <= 0 THEN {ZeroGreeks}
    ELSE IF sigma <= 0 THEN {NaNGreeks}
    ELSE {GreeksAt(S, K, T, r, sigma, option_type, d1) :
             d1 \in D1Values(S, K, T, r, sigma)}

\* calculate_greeks: the results it can give.
calculate_greeks(S, K, T, r, sigma, option_type) ==
    IF T <= 0 \/ sigma <= 0 THEN {ZeroGreeks}
    ELSE {GreeksAt(S, K, T, r, sigma, option_type, d1) :
             d1 \in D1Values(S, K, T, r, sigma)}

PriceAt_put_unmirrored(S, K, T, r, sigma, option_type, d1) ==
    IF d1.k = "ZeroDivisionError" THEN [raised |-> "ZeroDivisionError"]
    ELSE IF d1.k = "nan" THEN [raised |-> "none", price |-> NaN]
    ELSE LET d2 == Minus(d1, SigmaSqrtT(T, sigma))
             discounted == K * ExpNeg(RoundDiv(r * T, 4))
         IN [raised |-> "none",
             price |-> Fin(IF Lower(option_type) = "call"
                           THEN S * NormCdf(d1) * Scale - discounted * NormCdf(d2)
                           ELSE discounted * NormCdf(d2)
                                - S * NormCdf(d1) * Scale)]

\* Lines 108-114 for a given d1; the price is in units of 1/Scale^2.
PriceAt(S, K, T, r, sigma, option_type, d1) ==
    IF d1.k = "ZeroDivisionError" THEN [raised |-> "ZeroDivisionError"]
    ELSE IF d1.k = "nan" THEN [raised |-> "none", price |-> NaN]
    ELSE LET d2 == Minus(d1, SigmaSqrtT(T, sigma))
             discounted == K * ExpNeg(RoundDiv(r * T, 4))
         IN [raised |-> "none",
             price |-> Fin(IF Lower(option_type) = "call"
                           THEN S * NormCdf(d1) * Scale - discounted * NormCdf(d2)
                           ELSE discounted * NormCdf(Neg(d2))
                                - S * NormCdf(Neg(d1)) * Scale)]

\* _black_scholes_price: the results it can give.
_black_scholes_price(S, K, T, r, sigma, option_type) ==
    IF T <= 0
    THEN {[raised |-> "none",
           price |-> Fin(Scale * Scale * (IF Lower(option_type) = "call"
                                          THEN Max(0, S - K) ELSE Max(0, K - S)))]}
    ELSE {PriceAt(S, K, T, r, sigma, option_type, d1) : d1 \in _d1(S, K, T, r, sigma)}

\* Inputs of the library calls, made one at a time.  Chains of up to MaxRows rows at one strike,
\* with volumes and open interests whose quotients fall on both sides of and
\* exactly on 0.8 and 1.2.
MaxRows == 2
VolumeChoices == {0, 4, 5, 6}
AggRows ==
    {Row(type, 100, volume, open_interest) :
        type \in {"call", "put"}, volume \in VolumeChoices,
        open_interest \in VolumeChoices}
AggChains == UNION {[1..n -> AggRows] : n \in 0..MaxRows}

\* Ratios in hundredths: 0.00, 0.10, ..., MaxRatioSteps / 10.
MaxRatioSteps == 15
RatioChoices == {10 * k : k \in 0..MaxRatioSteps}

\* Ascending lists of unique strikes, stock prices around them, and the
\* number of strikes wanted on each side.
StrikeGrid == {90, 95, 100, 105, 110}
StrikeLists == {SortedSeq(S) : S \in SUBSET StrikeGrid}
MaxPriceOffset == 20
LibPrices == {100 + d : d \in (0 - MaxPriceOffset)..MaxPriceOffset}
MaxNumStrikes == 2

\* Last prices (thousandths of a dollar) below, at and above zero, below and
\* at the minimum bid, between two cents, and up to 100.00; volumes on both
\* sides of every tier.
LastPriceChoices == {-1000, 0, 5, 10, 12, 18, 30, 40, 120, 600, 1000, 2500, 100000}
TierVolumeChoices == {0, 10, 11, 100, 101, 1000, 1001, 10000, 10001, 50000}

CallEstimateBidAskSpread ==
    /\ lib = LibIdle
    /\ \E last_price \in LastPriceChoices, volume \in TierVolumeChoices :
          \E result \in estimate_bid_ask_spread(last_price, volume) :
             lib' = [fn |-> "estimate_bid_ask_spread",
                     last_price |-> last_price, volume |-> volume,
                     result |-> result]
    /\ UNCHANGED <<pc, session, run, dash, calc, api>>

\* Strikes of -25, 0, 50, 100 and 525 dollars, and stock prices below and at
\* zero, on and next to both band edges of every positive strike, at the
\* strikes, and at 110 dollars; all in eighths of a dollar.
MoneynessStrikes == {-200, 0, 400, 800, 4200}
MoneynessPrices ==
    {-800, 0, 880}
    \cup {(201 * k) \div 200 + d : k \in {400, 800, 4200}, d \in {-1, 0, 1}}
    \cup {(199 * k) \div 200 + d : k \in {400, 800, 4200}, d \in {-1, 0, 1}}
    \cup {400, 800, 4200}

CallCalculateMoneyness ==
    /\ lib = LibIdle
    /\ \E stock_price \in MoneynessPrices, strike \in MoneynessStrikes,
          option_type \in {"call", "put"} :
          lib' = [fn |-> "calculate_moneyness",
                  stock_price |-> stock_price, strike |-> strike,
                  option_type |-> option_type,
                  result |-> calculate_moneyness(stock_price, strike, option_type)]
    /\ UNCHANGED <<pc, session, run, dash, calc, api>>

\* Inputs of the evaluator: S and K below, at and above zero, T of -1/4, 0,
\* 1/4 and 1 year, r of 0 and 5%, sigma of -20%, 0, 20% and 40%.
SpotChoices == {-1, 0, 1, 2}
TimeChoices == {-1, 0, 1, 4}
RateChoices == {0, 500}
SigmaChoices == {-2000, 0, 2000, 4000}

CallCalculateGreeks ==
    /\ lib = LibIdle
    /\ \E S \in SpotChoices, K \in SpotChoices, T \in TimeChoices,
          r \in RateChoices, sigma \in SigmaChoices, option_type \in {"call", "put"} :
          \E result \in calculate_greeks(S, K, T, r, sigma, option_type) :
             lib' = [fn |-> "calculate_greeks", S |-> S, K |-> K, T |-> T, r |-> r,
                     sigma |-> sigma, option_type |-> option_type, result |-> result]
    /\ UNCHANGED <<pc, session, run, dash, calc, api>>

\* The price of the call and of the put on the same arguments.
CallBlackScholesPrice ==
    /\ lib = LibIdle
    /\ \E S \in SpotChoices, K \in SpotChoices, T \in TimeChoices,
          r \in RateChoices, sigma \in SigmaChoices :
          \E call \in _black_scholes_price(S, K, T, r, sigma, "call"),
             put \in _black_scholes_price(S, K, T, r, sigma, "put") :
             lib' = [fn |-> "_black_scholes_price", S |-> S, K |-> K, T |-> T,
                     r |-> r, sigma |-> sigma, call |-> call, put |-> put]
    /\ UNCHANGED <<pc, session, run, dash, calc, api>>

CallAggregateOptionMetrics ==
    /\ lib = LibIdle
    /\ \E chain \in AggChains :
          lib' = [fn |-> "aggregate_option_metrics", option_chain |-> chain,
                  result |-> aggregate_option_metrics(chain)]
    /\ UNCHANGED <<pc, session, run, dash, calc, api>>

CallDetermineMarketSentiment ==
    /\ lib = LibIdle
    /\ \E pc_ratio_volume \in RatioChoices, pc_ratio_oi \in RatioChoices :
          lib' = [fn |-> "determine_market_sentiment",
                  pc_ratio_volume |-> pc_ratio_volume, pc_ratio_oi |-> pc_ratio_oi,
                  result |-> determine_market_sentiment(pc_ratio_volume, pc_ratio_oi)]
    /\ UNCHANGED <<pc, session, run, dash, calc, api>>

CallGetStrikeRangeAroundAtm ==
    /\ lib = LibIdle
    /\ \E strikes \in StrikeLists, current_price \in LibPrices,
          num_strikes \in 0..MaxNumStrikes :
          lib' = [fn |-> "get_strike_range_around_atm",
                  strikes |-> strikes, current_price |-> current_price,
                  num_strikes |-> num_strikes,
                  locals |-> get_strike_range_around_atm(strikes, current_price,
                       num_strikes)]
    /\ UNCHANGED <<pc, session, run, dash, calc, api>>

----------------------------------------------------------------------------
(* pandas DataFrames *)

\* A DataFrame: its column labels in order and its rows, each a function from
\* the labels to cells.  A 'strike' cell is a number and a 'type' cell a
\* string; every other cell is an optional, None being a missing value (None
\* or NaN).
Frame(columns, rows) == [columns |-> columns, rows |-> rows]

\* pd.DataFrame()
EmptyFrame == Frame(<< >>, << >>)

\* df.columns as a set, and "col in df.columns".
Labels(df) == {df.columns[i] : i \in 1..Len(df.columns)}

\* df.empty
FrameEmpty(df) == Len(df.rows) = 0 \/ Len(df.columns) = 0

\* df[col] = value: the column is overwritten, or added as the last one.
SetColumn(df, col, value) ==
    Frame(IF col \in Labels(df) THEN df.columns ELSE Append(df.columns, col),
          [i \in 1..Len(df.rows) |->
              [c \in Labels(df) \cup {col} |->
                  IF c = col THEN value ELSE df.rows[i][c]]])

----------------------------------------------------------------------------
(* utils/polygon_api.py: _merge_option_data *)

\* on=['strike', 'type']
MergeKeys == {"strike", "type"}

\* The label a right-hand column gets from suffixes=('', '_api') when the
\* left-hand frame has a column of the same label.
ApiLabel(c) ==
    CASE c = "ticker" -> "ticker_api"
      [] c = "bid" -> "bid_api"
      [] c = "ask" -> "ask_api"
      [] c = "last" -> "last_api"
      [] c = "volume" -> "volume_api"
      [] c = "open_interest" -> "open_interest_api"
      [] c = "data_source" -> "data_source_api"

\* The label without its suffix '_api'; col.endswith('_api') is
\* BaseLabel(col) # col.
BaseLabel(c) ==
    CASE c = "ticker_api" -> "ticker"
      [] c = "bid_api" -> "bid"
      [] c = "ask_api" -> "ask"
      [] c = "last_api" -> "last"
      [] c = "volume_api" -> "volume"
      [] c = "open_interest_api" -> "open_interest"
      [] c = "data_source_api" -> "data_source"
      [] OTHER -> c

\* Lines 575-581 for one of the two frames: from position i of required_cols
\* on, every label but the three identifying ones is added to the frame
\* itself, as a column of None, when the frame lacks it.
RECURSIVE AddMissingColumns(_, _)
AddMissingColumns(df, i) ==
    LET required_cols == <<"strike", "type", "ticker", "bid", "ask", "last",
                           "volume", "open_interest">>
    IN IF i > Len(required_cols) THEN df
       ELSE AddMissingColumns(
                IF /\ required_cols[i] \notin Labels(df)
                   /\ required_cols[i] \notin {"strike", "type", "ticker"}
                THEN SetColumn(df, required_cols[i], None) ELSE df,
                i + 1)

\* The pairs <<i, j>> of an outer join: row i of left with row j of right
\* when their keys agree, <<i, 0>> and <<0, j>> for rows without a partner.
JoinPairs(left, right) ==
    LET L == 1..Len(left.rows)
        R == 1..Len(right.rows)
        Agree(i, j) == /\ left.rows[i]["strike"] = right.rows[j]["strike"]
                       /\ left.rows[i]["type"] = right.rows[j]["type"]
    IN {<<i, j>> \in L \X R : Agree(i, j)}
       \cup {<<i, 0>> : i \in {k \in L : \A j \in R : ~Agree(k, j)}}
       \cup {<<0, j>> : j \in {k \in R : \A i \in L : ~Agree(i, k)}}

\* The order of the rows of an outer join: by key ('call' before 'put'), then
\* as the rows stand in the two frames.
RECURSIVE SortPairs(_, _, _)
SortPairs(left, right, pairs) ==
    LET Key(p) ==
            LET row == IF p[1] > 0 THEN left.rows[p[1]] ELSE right.rows[p[2]]
            IN <<row["strike"], IF row["type"] = "call" THEN 0 ELSE 1, p[1], p[2]>>
        LessEq(a, b) ==
            \/ a = b
            \/ \E k \in 1..4 : a[k] < b[k] /\ \A m \in 1..(k - 1) : a[m] = b[m]
    IN IF pairs = {} THEN << >>
       ELSE LET first == CHOOSE p \in pairs : \A q \in pairs : LessEq(Key(p), Key(q))
            IN <<first>> \o SortPairs(left, right, pairs \ {first})

\* Lines 584-590: pd.merge(left, right, on=['strike', 'type'], how='outer',
\* suffixes=('', '_api')).  The columns are those of left, then the columns
\* of right that are not keys, suffixed when left has the label too.
pd_merge(left, right) ==
    LET others == SelectSeq(right.columns, LAMBDA c : c \notin MergeKeys)
        suffixed == [k \in 1..Len(others) |->
                        IF others[k] \in Labels(left) THEN ApiLabel(others[k])
                        ELSE others[k]]
        columns == left.columns \o suffixed
        pairs == SortPairs(left, right, JoinPairs(left, right))
        Cell(p, c) ==
            IF c \in MergeKeys
            THEN (IF p[1] > 0 THEN left.rows[p[1]][c] ELSE right.rows[p[2]][c])
            ELSE IF c \in Labels(left)
            THEN (IF p[1] > 0 THEN left.rows[p[1]][c] ELSE None)
            ELSE (IF p[2] > 0 THEN right.rows[p[2]][BaseLabel(c)] ELSE None)
    IN Frame(columns,
             [n \in 1..Len(pairs) |->
                 [c \in {columns[k] : k \in 1..Len(columns)} |-> Cell(pairs[n], c)]])

\* Lines 593-599 for one column: when the frame has both the column and its
\* '_api' twin, df[col] = df[col].fillna(df[col + '_api']).
FillNa(df, col) ==
    IF col \in Labels(df) /\ ApiLabel(col) \in Labels(df)
    THEN Frame(df.columns,
               [i \in 1..Len(df.rows) |->
                   [df.rows[i] EXCEPT ![col] = IF @ = None THEN df.rows[i][ApiLabel(col)]
                                               ELSE @]])
    ELSE df

\* _merge_option_data: the two frames passed as they are after the call, and
\* the frame returned or the exception raised.  pd.merge raises KeyError
\* when a frame has no 'strike' or no 'type' column.
_merge_option_data(s3_data, api_data) ==
    LET s3_after == AddMissingColumns(s3_data, 1)
        api_after == AddMissingColumns(api_data, 1)
    IN IF ~(MergeKeys \subseteq Labels(s3_after)) \/ ~(MergeKeys \subseteq Labels(api_after))
       THEN [s3_data |-> s3_after, api_data |-> api_after, raised |-> "KeyError"]
       ELSE LET merged == pd_merge(s3_after, api_after)
                filled == FillNa(FillNa(FillNa(FillNa(FillNa(merged, "bid"), "ask"),
                                               "last"), "volume"), "open_interest")
                tickered == FillNa(filled, "ticker")
                kept == SelectSeq(tickered.columns, LAMBDA c : BaseLabel(c) = c)
                cleaned == Frame(kept,
                                 [i \in 1..Len(tickered.rows) |->
                                     [c \in {kept[k] : k \in 1..Len(kept)} |->
                                         tickered.rows[i][c]]])
            IN [s3_data |-> s3_after, api_data |-> api_after, raised |-> "none",
                result |-> SetColumn(cleaned, "data_source", Some("merged"))]

----------------------------------------------------------------------------
(* utils/data_formatter.py: format_option_chain_for_display *)

\* format_option_chain_for_display: the frame passed as it is after the
\* call, and the frame returned.  The function reads option_chain and works
\* on the copy made at line 306, to which the loop of lines 309-315 adds four
\* columns when it has a row.
format_option_chain_for_display(chain, stock_price, strikes_around_atm) ==
    IF FrameEmpty(chain)
    THEN [option_chain |-> chain, result |-> EmptyFrame]
    ELSE LET strikes == SortedSeq({chain.rows[i]["strike"] : i \in 1..Len(chain.rows)})
             display_strikes ==
                 get_strike_range_around_atm(strikes, stock_price, strikes_around_atm).result
             shown == {display_strikes[k] : k \in 1..Len(display_strikes)}
             filtered_chain == Frame(chain.columns,
                                     SelectSeq(chain.rows, LAMBDA row : row["strike"] \in shown))
             added == {"moneyness_pct", "is_itm", "is_atm", "intrinsic_value"}
             columns == filtered_chain.columns
                        \o SelectSeq(<<"moneyness_pct", "is_itm", "is_atm", "intrinsic_value">>,
                                     LAMBDA c : c \notin Labels(filtered_chain))
             Cell(row, c) ==
                 IF c \in added
                 THEN Some(calculate_moneyness(stock_price, row["strike"], row["type"])[c])
                 ELSE row[c]
         IN [option_chain |-> chain,
             result |-> IF Len(filtered_chain.rows) = 0 THEN filtered_chain
                        ELSE Frame(columns,
                                   [i \in 1..Len(filtered_chain.rows) |->
                                       [c \in {columns[k] : k \in 1..Len(columns)} |->
                                           Cell(filtered_chain.rows[i], c)]])]

----------------------------------------------------------------------------
(* app.py: the check of the required columns *)

\* Lines 252-260 on the chain of the run, which is the object stored in
\* st.session_state.option_chain: the script stops when 'type' or 'strike' is
\* missing, and a missing 'volume' or 'open_interest' is added to the chain
\* itself as a column of zeros.
required_columns_check(chain) ==
    IF "type" \notin Labels(chain) \/ "strike" \notin Labels(chain)
    THEN [option_chain |-> chain, stopped |-> TRUE]
    ELSE LET with_volume == IF "volume" \notin Labels(chain)
                            THEN SetColumn(chain, "volume", Some(0))
                            ELSE chain
             with_oi == IF "open_interest" \notin Labels(with_volume)
                        THEN SetColumn(with_volume, "open_interest", Some(0))
                        ELSE with_volume
         IN [option_chain |-> with_oi, stopped |-> FALSE]

\* Frames handed to the functions that take a chain: no frame at all, or up
\* to MaxFrameRows rows under the columns of a chain or under columns that
\* lack bid, ask, volume and open_interest.  Strikes are 100 and 125 dollars
\* in eighths of a dollar; only the rows at 100 carry a bid and an ask.
ChainColumns == <<"ticker", "type", "strike", "bid", "ask", "last", "volume", "open_interest", "data_source">>
BareColumns == <<"ticker", "type", "strike", "last">>
MaxFrameRows == 2

ChainRow(columns, type, strike, src) ==
    [c \in {columns[k] : k \in 1..Len(columns)} |->
        CASE c = "type" -> type
          [] c = "strike" -> strike
          [] c = "ticker" -> Some("O:SPY")
          [] c = "bid" -> IF strike = 800 THEN Some(IF src = "s3_flatfiles" THEN 100 ELSE 101)
                          ELSE None
          [] c = "ask" -> IF strike = 800 THEN Some(IF src = "s3_flatfiles" THEN 110 ELSE 111)
                          ELSE None
          [] c = "last" -> Some(IF src = "s3_flatfiles" THEN 105 ELSE 106)
          [] c = "volume" -> Some(IF src = "s3_flatfiles" THEN 10 ELSE 11)
          [] c = "open_interest" -> Some(IF src = "s3_flatfiles" THEN 20 ELSE 21)
          [] c = "data_source" -> Some(src)]

FramesUnder(columns, src) ==
    {Frame(columns, rows) :
        rows \in UNION {[1..n -> {ChainRow(columns, type, strike, src) :
                                     type \in {"call", "put"},
                                     strike \in {800, 1000}}] :
                        n \in 0..MaxFrameRows}}

FramesOf(src) ==
    {EmptyFrame} \cup FramesUnder(ChainColumns, src) \cup FramesUnder(BareColumns, src)

CallMergeOptionData ==
    /\ lib = LibIdle
    /\ \E s3_data \in FramesOf("s3_flatfiles"), api_data \in FramesOf("rest_api") :
          lib' = [fn |-> "_merge_option_data",
                  s3_data |-> s3_data, api_data |-> api_data,
                  after |-> _merge_option_data(s3_data, api_data)]
    /\ UNCHANGED <<pc, session, run, dash, calc, api>>

\* Stock prices of 0, 100.50 and 125 dollars, in eighths of a dollar.
CallFormatOptionChainForDisplay ==
    /\ lib = LibIdle
    /\ \E chain \in FramesOf("s3_flatfiles"), stock_price \in {0, 804, 1000},
          strikes_around_atm \in 0..1 :
          lib' = [fn |-> "format_option_chain_for_display",
                  option_chain |-> chain, stock_price |-> stock_price,
                  strikes_around_atm |-> strikes_around_atm,
                  after |-> format_option_chain_for_display(chain, stock_price,
                                                            strikes_around_atm)]
    /\ UNCHANGED <<pc, session, run, dash, calc, api>>

\* The check on the chain of a run: a chain get_option_chain has returned,
\* with every column of a chain, and not empty (line 251).
RequiredColumnsCheck ==
    /\ lib = LibIdle
    /\ \E chain \in FramesUnder(ChainColumns, "s3_flatfiles")
                    \cup FramesUnder(ChainColumns, "rest_api") :
          /\ ~FrameEmpty(chain)
          /\ lib' = [fn |-> "required_columns_check", option_chain |-> chain,
                     after |-> required_columns_check(chain)]
    /\ UNCHANGED <<pc, session, run, dash, calc, api>>

----------------------------------------------------------------------------
(* utils/polygon_api.py: the memo dictionaries and the expirations *)

\* What requests.get can give: an exception, or a response with a status
\* code and a body.  For the day's aggregates the results are a list of
\* closing prices in dollars.
PriceResponses ==
    {[raised |-> TRUE, status_code |-> 0, results |-> << >>],
     [raised |-> FALSE, status_code |-> 500, results |-> << >>]}
    \cup {[raised |-> FALSE, status_code |-> 200, results |-> results] :
             results \in {<< >>, <<2>>, <<3>>}}

\* get_stock_price for the client as it is and the response a request would
\* get: the client after the call, the value returned, and whether the
\* request was made.
get_stock_price(client, ticker, date, response) ==
    LET cache_key == <<ticker, date>>
    IN IF client._price_cache[cache_key] # None
       THEN [api |-> client, result |-> client._price_cache[cache_key],
             requested |-> FALSE]
       ELSE IF ~response.raised /\ response.status_code = 200
               /\ response.results # << >>
       THEN LET price == response.results[1]
            IN [api |-> [client EXCEPT !._price_cache[cache_key] = Some(price)],
                result |-> Some(price), requested |-> TRUE]
       ELSE [api |-> client, result |-> None, requested |-> TRUE]

CallGetStockPrice ==
    /\ lib = LibIdle
    /\ \E key \in CacheKeys, response \in PriceResponses :
          LET call == get_stock_price(api, key[1], key[2], response)
          IN /\ api' = call.api
             /\ lib' = [fn |-> "get_stock_price", key |-> key,
                        response |-> response, requested |-> call.requested,
                        result |-> call.result]
    /\ UNCHANGED <<pc, session, run, dash, calc>>

\* The rows of a day's flat file that matter: the option symbol
\* O:<underlying><yymmdd><C|P><strike * 1000> in its parts, the strike part
\* being None when it is cut short or not a number, the closing, opening,
\* high, low and average prices in thousandths of a dollar (one price each
\* row) and the volume, None when the field is empty (read as NaN).  The
\* rows are of calls and puts of SPY expiring on day 365 with volumes in each
\* tier of lines 386-391 and with no volume, of one contract expiring on day
\* 7, of one with a broken symbol, and of one contract of another underlying.
\* What get_s3_options_data returns (lines 122-161) is a list of such rows,
\* empty when there is no file or the download fails.
S3Files ==
    LET S3Row(underlying, exp, cp, strike, close, volume) ==
            [ticker |-> [underlying |-> underlying, expiration |-> exp, cp |-> cp,
                         strike |-> strike],
             close |-> close, volume |-> volume]
        S3Rows ==
            {S3Row("SPY", 365, "C", Some(2000), 1000, Some(5000)),
             S3Row("SPY", 365, "P", Some(2000), 1010, Some(500)),
             S3Row("SPY", 365, "C", Some(1000), 5, Some(50)),
             S3Row("SPY", 365, "P", Some(1000), 1000, None),
             S3Row("SPY", 7, "P", Some(1000), 0, Some(0)),
             S3Row("SPY", 365, "C", None, 1000, Some(5000)),
             S3Row("QQQ", 365, "C", Some(2000), 1000, Some(5000))}
    IN UNION {[1..n -> S3Rows] : n \in 0..MaxFrameRows}

\* _get_expirations_from_s3 on the file of the as-of day.
_get_expirations_from_s3(ticker, as_of_date, df) ==
    SortedSeq({df[i].ticker.expiration : i \in
                  {j \in 1..Len(df) : /\ df[j].ticker.underlying = ticker
                                      /\ df[j].ticker.expiration >= as_of_date}})

\* Line 239: the loop goes on while fewer expirations than this are known.
MaxExpirations == 50

\* The server sends a page without next_url, an error status or nothing at
\* all after at most MaxPages requests of one call.
MaxPages == 3

\* What a request for a page of contracts can get: an exception, an error
\* status, or a page with one of the given results and with or without a
\* next_url.
ContractPages(choices) ==
    {[raised |-> TRUE, status_code |-> 0, results |-> << >>, next_url |-> FALSE],
     [raised |-> FALSE, status_code |-> 500, results |-> << >>, next_url |-> FALSE]}
    \cup {[raised |-> FALSE, status_code |-> 200, results |-> results,
           next_url |-> next_url] :
             results \in choices, next_url \in BOOLEAN}

\* A response after which a pagination loop does not ask for another page.
LastPage(response) ==
    response.raised \/ response.status_code # 200 \/ ~response.next_url

\* Lines 205-237: the cached list, else the list from S3 when it is not
\* empty, else the loop of lines 239-260 is entered.
CallGetAvailableExpirations ==
    /\ lib = LibIdle
    /\ \E key \in CacheKeys, df \in S3Files :
          LET cached == api._expiration_cache[key]
              from_s3 == IF api.s3_client
                         THEN _get_expirations_from_s3(key[1], key[2], df)
                         ELSE << >>
              call == [fn |-> "get_available_expirations", key |-> key,
                       cached |-> cached, expirations |-> {}, requests |-> 0,
                       response |-> None, pc |-> "returned", result |-> << >>]
          IN IF cached # None
             THEN /\ lib' = [call EXCEPT !.result = Val(cached)]
                  /\ api' = api
             ELSE IF from_s3 # << >>
             THEN /\ lib' = [call EXCEPT !.result = from_s3]
                  /\ api' = [api EXCEPT !._expiration_cache[key] = Some(from_s3)]
             ELSE /\ lib' = [call EXCEPT !.pc = "loop"]
                  /\ api' = api
    /\ UNCHANGED <<pc, session, run, dash, calc>>

ExpirationsPage_cap_ignored ==
    /\ lib.fn = "get_available_expirations"
    /\ lib.pc = "loop"
    /\ \E response \in ContractPages({<< >>, <<7>>, [i \in 1..30 |-> i],
                                      [i \in 1..40 |-> 20 + i]}) :
          /\ lib.requests + 1 = MaxPages => LastPage(response)
          /\ LET ok == ~response.raised /\ response.status_code = 200
                 found == IF ok
                          THEN lib.expirations
                               \cup {response.results[i] : i \in 1..Len(response.results)}
                          ELSE lib.expirations
                 next_url == ok /\ response.next_url
             IN lib' = [lib EXCEPT !.expirations = found,
                                   !.requests = @ + 1,
                                   !.response = Some(response),
                                   !.pc = IF next_url THEN "loop" ELSE "done"]
    /\ UNCHANGED <<pc, session, run, dash, calc, api>>

\* Lines 239-260: one pass of the loop body, and the test of line 239 that
\* follows it.  A page lists the expiration dates of its contracts: none, day
\* 7, days 1 to 30 or days 21 to 60.
ExpirationsPage ==
    /\ lib.fn = "get_available_expirations"
    /\ lib.pc = "loop"
    /\ \E response \in ContractPages({<< >>, <<7>>, [i \in 1..30 |-> i],
                                      [i \in 1..40 |-> 20 + i]}) :
          /\ lib.requests + 1 = MaxPages => LastPage(response)
          /\ LET ok == ~response.raised /\ response.status_code = 200
                 found == IF ok
                          THEN lib.expirations
                               \cup {response.results[i] : i \in 1..Len(response.results)}
                          ELSE lib.expirations
                 next_url == ok /\ response.next_url
             IN lib' = [lib EXCEPT !.expirations = found,
                                   !.requests = @ + 1,
                                   !.response = Some(response),
                                   !.pc = IF next_url /\ Cardinality(found) < MaxExpirations
                                          THEN "loop" ELSE "done"]
    /\ UNCHANGED <<pc, session, run, dash, calc, api>>

\* Lines 262-264.
ExpirationsReturn ==
    /\ lib.fn = "get_available_expirations"
    /\ lib.pc = "done"
    /\ LET result == SortedSeq(lib.expirations)
       IN /\ api' = [api EXCEPT !._expiration_cache[lib.key] = Some(result)]
          /\ lib' = [lib EXCEPT !.result = result, !.pc = "returned"]
    /\ UNCHANGED <<pc, session, run, dash, calc>>

----------------------------------------------------------------------------
(* utils/polygon_api.py: get_option_chain *)

\* Lines 385-397 and the rounding of lines 421-422: last_price in thousandths
\* of a dollar, half_spread in millionths, the (bid, ask) pairs in cents.
s3_bid_ask(last_price, volume) ==
    IF last_price > 0
    THEN LET spread == IF volume > 1000 THEN 20
                       ELSE IF volume > 100 THEN 50
                       ELSE 100
             half_spread == (last_price * spread) \div 2
         IN RoundToCents(Max(10000, 1000 * last_price - half_spread))
            \X RoundToCents(1000 * last_price + half_spread)
    ELSE {<<0, 0>>}

\* Lines 365-433: the dictionaries one row of the file can give.  Strikes are
\* whole dollars, T is in quarters of a year and is positive.
S3ChainRows(row, expiration, stock_price, T) ==
    LET opt_type == IF row.ticker.cp = "C" THEN "call" ELSE "put"
        strike == Val(row.ticker.strike) \div 1000
        last_price == row.close
        volume == Val(row.volume)
        near == last_price > 0 /\ T > 0 /\ 5 * Abs(strike - stock_price) < stock_price
        iv == IF ~near THEN 3000
              ELSE IF 20 * Abs(strike - stock_price) < stock_price THEN 2000
              ELSE 2500
        columns == <<"ticker", "type", "strike", "expiration", "bid", "ask", "last",
                     "volume", "open_interest", "high", "low", "vwap", "change",
                     "implied_volatility", "delta", "gamma", "theta", "vega", "rho",
                     "data_source">>
    IN {[c \in {columns[k] : k \in 1..Len(columns)} |->
            CASE c = "type" -> opt_type
              [] c = "strike" -> strike
              [] c = "ticker" -> Some(row.ticker)
              [] c = "expiration" -> Some(expiration)
              [] c = "bid" -> Some(quote[1])
              [] c = "ask" -> Some(quote[2])
              [] c = "volume" -> Some(volume)
              [] c = "open_interest" -> Some(row.close \div 10)
              [] c \in {"last", "high", "low", "vwap"} -> Some(row.close)
              [] c = "change" -> Some(0)
              [] c = "implied_volatility" -> Some(iv)
              [] c = "data_source" -> Some("s3_flatfiles")
              [] OTHER -> Some(greeks[c])] :
          quote \in s3_bid_ask(last_price, volume),
          greeks \in IF near
                     THEN calculate_greeks(stock_price, strike, T, 500, iv, opt_type)
                     ELSE {ZeroGreeks}}

\* _get_option_chain_from_s3 on the file df of the as-of day, response being
\* what a request for the stock price would get: the client after the call
\* and the frame returned, for each way the floats can fall.  int(volume) at
\* line 424 raises on a NaN, and line 439 catches it.
_get_option_chain_from_s3(client, ticker, expiration, as_of_date, df, response) ==
    LET options_aggs == SelectSeq(df, LAMBDA row : /\ row.ticker.underlying = ticker
                                                   /\ row.ticker.expiration = expiration)
        price == get_stock_price(client, ticker, as_of_date, response)
        stock_price == IF Truthy(price.result) THEN Val(price.result) ELSE 100
        T == (4 * (expiration - as_of_date)) \div 365
        parsed == SelectSeq(options_aggs, LAMBDA row : row.ticker.strike # None)
        columns == <<"ticker", "type", "strike", "expiration", "bid", "ask", "last",
                     "volume", "open_interest", "high", "low", "vwap", "change",
                     "implied_volatility", "delta", "gamma", "theta", "vega", "rho",
                     "data_source">>
    IN IF ~client.s3_client \/ options_aggs = << >>
       THEN {[api |-> client, result |-> EmptyFrame]}
       ELSE IF parsed = << >> \/ \E i \in 1..Len(parsed) : parsed[i].volume = None
       THEN {[api |-> price.api, result |-> EmptyFrame]}
       ELSE {[api |-> price.api, result |-> Frame(columns, rows)] :
                rows \in {f \in [1..Len(parsed) ->
                                    UNION {S3ChainRows(parsed[i], expiration, stock_price, T) :
                                              i \in 1..Len(parsed)}] :
                             \A i \in 1..Len(parsed) :
                                f[i] \in S3ChainRows(parsed[i], expiration, stock_price, T)}}

\* The contracts a snapshot or a page of contracts lists: a call at 2
\* dollars expiring on day 365 and a put at 1 dollar expiring on day 7.
\* The snapshot gives no quote, the day's bar only for the call.
ApiContracts ==
    {[contract_type |-> "call", strike_price |-> 2, expiration_date |-> 365,
      close |-> Some(1000)],
     [contract_type |-> "put", strike_price |-> 1, expiration_date |-> 7,
      close |-> None]}

\* pd.DataFrame of the dictionaries made of a list of contracts (lines
\* 462-477 with src 'rest_api', lines 653-668 with src 'skeleton'): no
\* columns when the list is empty.
ApiFrame(contracts, src) ==
    LET columns == <<"ticker", "type", "strike", "expiration", "bid", "ask", "last",
                     "volume", "open_interest", "high", "low", "vwap", "change",
                     "data_source">>
        ApiRow(contract) ==
            [c \in {columns[k] : k \in 1..Len(columns)} |->
                CASE c = "type" -> contract.contract_type
                  [] c = "strike" -> contract.strike_price
                  [] c = "ticker" -> Some(contract)
                  [] c = "expiration" -> Some(contract.expiration_date)
                  [] c \in {"volume", "open_interest"} -> Some(0)
                  [] c \in {"last", "high", "low", "vwap"} ->
                         IF src = "rest_api" THEN contract.close ELSE None
                  [] c = "data_source" -> Some(src)
                  [] OTHER -> None]
    IN IF contracts = << >> THEN EmptyFrame
       ELSE Frame(columns, [i \in 1..Len(contracts) |-> ApiRow(contracts[i])])

\* Lines 330-331, and the columns lines 683-687 add to a frame without any.
BasicColumns == <<"ticker", "type", "strike", "expiration", "bid", "ask", "last", "volume", "open_interest">>

\* Lines 443-487: the frame made from the results of a snapshot that has
\* some.
_get_option_chain_from_api(results, expiration) ==
    LET matching == SelectSeq(results, LAMBDA r : r.expiration_date = expiration)
        df == ApiFrame(matching, "rest_api")
    IN IF df = EmptyFrame
       THEN Frame(<<"bid", "ask", "last", "volume", "open_interest">>, << >>)
       ELSE df

get_option_chain_rest_first(client, as_of_date, s3_data, snapshot) ==
    IF snapshot # << >> THEN "rest" ELSE "skeleton"

\* Lines 317-326 and 452: which frame get_option_chain goes on with.
get_option_chain(client, as_of_date, s3_data, snapshot) ==
    IF client.s3_client /\ as_of_date # None /\ ~FrameEmpty(s3_data) THEN "s3"
    ELSE IF snapshot # << >> THEN "rest"
    ELSE "skeleton"

\* get_option_chain up to its return or to the loop of
\* _get_contracts_skeleton.  snapshot is the list of results of the snapshot,
\* empty also when the request fails (lines 609-626) and when the frame from
\* S3 is returned and no snapshot is asked for.
CallGetOptionChain ==
    /\ lib = LibIdle
    /\ \E key \in CacheKeys, given \in BOOLEAN :
          LET as_of_date == IF given THEN Some(key[2]) ELSE None
              expiration == 365
              from_s3 == IF api.s3_client /\ given
                         THEN UNION {_get_option_chain_from_s3(api, key[1], expiration,
                                                               key[2], df, response) :
                                        df \in S3Files, response \in PriceResponses}
                         ELSE {[api |-> api, result |-> EmptyFrame]}
          IN \E s3 \in from_s3 :
                \E snapshot \in IF get_option_chain(api, as_of_date, s3.result, << >>) = "s3"
                                 THEN {<< >>}
                                 ELSE UNION {[1..n -> ApiContracts] : n \in 0..MaxFrameRows} :
                   LET path == get_option_chain(api, as_of_date, s3.result, snapshot)
                       call == [fn |-> "get_option_chain", ticker |-> key[1],
                                expiration |-> expiration, as_of_date |-> as_of_date,
                                snapshot |-> snapshot, s3_data |-> s3.result,
                                all_contracts |-> << >>, requests |-> 0,
                                response |-> None, pc |-> "returned",
                                result |-> EmptyFrame]
                   IN /\ api' = s3.api
                      /\ lib' = CASE path = "s3" -> [call EXCEPT !.result = s3.result]
                                  [] path = "rest" ->
                                         LET api_data == _get_option_chain_from_api(
                                                             snapshot, expiration)
                                         IN [call EXCEPT !.result =
                                                IF FrameEmpty(api_data)
                                                THEN Frame(BasicColumns, << >>)
                                                ELSE api_data]
                                  [] OTHER -> [call EXCEPT !.pc = "loop"]
    /\ UNCHANGED <<pc, session, run, dash, calc>>

\* Lines 641-678: one pass of the loop body of _get_contracts_skeleton and
\* the test of line 641 that follows it.
SkeletonPage ==
    /\ lib.fn = "get_option_chain"
    /\ lib.pc = "loop"
    /\ \E response \in ContractPages(UNION {[1..n -> ApiContracts] : n \in 0..1}) :
          /\ lib.requests + 1 = MaxPages => LastPage(response)
          /\ LET ok == ~response.raised /\ response.status_code = 200
                 contracts == IF ok THEN response.results ELSE << >>
             IN lib' = [lib EXCEPT !.all_contracts = @ \o contracts,
                                   !.requests = @ + 1,
                                   !.response = Some(response),
                                   !.pc = IF ok /\ response.next_url THEN "loop"
                                          ELSE "done"]
    /\ UNCHANGED <<pc, session, run, dash, calc, api>>

\* Lines 680-689, and lines 329-333 of get_option_chain.
SkeletonReturn ==
    /\ lib.fn = "get_option_chain"
    /\ lib.pc = "done"
    /\ LET df == IF lib.all_contracts = << >> THEN Frame(BasicColumns, << >>)
                 ELSE ApiFrame(lib.all_contracts, "skeleton")
       IN lib' = [lib EXCEPT !.result = IF FrameEmpty(df)
                                        THEN Frame(BasicColumns, << >>) ELSE df,
                             !.pc = "returned"]
    /\ UNCHANGED <<pc, session, run, dash, calc, api>>

----------------------------------------------------------------------------
(* The specifications of the library and of the client *)

\* The caller is done with the value returned; the next call can be made.
LibReturn ==
    /\ lib # LibIdle
    /\ "pc" \in DOMAIN lib => lib.pc = "returned"
    /\ lib' = LibIdle
    /\ UNCHANGED <<pc, session, run, dash, calc, api>>

NextLib ==
    \/ LibReturn
    \/ CallEstimateBidAskSpread
    \/ CallCalculateMoneyness
    \/ CallCalculateGreeks
    \/ CallBlackScholesPrice
    \/ CallAggregateOptionMetrics
    \/ CallDetermineMarketSentiment
    \/ CallGetStrikeRangeAroundAtm
    \/ CallMergeOptionData
    \/ CallFormatOptionChainForDisplay
    \/ RequiredColumnsCheck

SpecLib == InitApp /\ [][NextLib]_vars

\* The calls on the client, one at a time.
NextApi ==
    \/ LibReturn
    \/ CallGetStockPrice
    \/ CallGetAvailableExpirations
    \/ ExpirationsPage
    \/ ExpirationsReturn
    \/ CallGetOptionChain
    \/ SkeletonPage
    \/ SkeletonReturn

SpecApi == InitApp /\ [][NextApi]_vars

\* A call in progress goes on: the script waits for each request, and
\* requests.get returns or raises.
FairSpecApi == SpecApi /\ WF_vars(ExpirationsPage \/ ExpirationsReturn \/ SkeletonPage \/ SkeletonReturn)

----------------------------------------------------------------------------
(* Properties of the Credit Spread Calculator, checked under SpecSpread *)

\* The validation rule of the design: same type, and strikes strictly
\* ordered for that type.
SpreadRule(sell_type, sell_strike, buy_type, buy_strike) ==
    /\ sell_type = buy_type
    /\ sell_type = "Call" => sell_strike < buy_strike
    /\ sell_type = "Put" => sell_strike > buy_strike

CalcRule ==
    SpreadRule(Val(calc.sell_type), Val(calc.sell_strike),
               Val(calc.buy_type), Val(calc.buy_strike))

\* C1: a (sell, buy) pair is accepted exactly when both legs have the same
\* type and the strikes are strictly ordered for that type (calls: sell < buy,
\* puts: sell > buy); every other pair is rejected with a reason; and
\* validate_spread_parameters gives the same verdict as the calculator's
\* inline checks on the same input.
C1_ValidationRule ==
    calc.pressed =>
        LET verdict == validate_spread_parameters(
                           Val(calc.sell_strike), Val(calc.buy_strike),
                           Val(calc.sell_type), Val(calc.buy_type))
            inline_accepts == calc.valid_spread = Some(TRUE)
        IN /\ inline_accepts <=> CalcRule
           /\ verdict[1] <=> CalcRule
           /\ CalcRule => calc.error = None /\ verdict[2] = ""
           /\ ~CalcRule => calc.error # None /\ verdict[2] # ""

\* C1 witness: a put pair with equal strikes has been submitted and rejected.
C1_Witness ==
    /\ calc.pressed
    /\ calc.sell_type = Some("Put") /\ calc.buy_type = Some("Put")
    /\ calc.sell_strike = calc.buy_strike
    /\ calc.valid_spread = Some(FALSE)
    /\ calc.error = Some(MsgPutOrder)

\* C2 as stated: for every invalid pair no net credit, max profit, max loss,
\* breakeven or P&L curve is computed or reported, only the validation error.
C2_NothingComputed ==
    calc.pressed /\ ~CalcRule =>
        /\ calc.error # None
        /\ calc.net_credit = None /\ calc.max_profit = None
        /\ calc.max_loss = None /\ calc.breakeven = None
        /\ calc.price_range = None /\ calc.pnl = None
        /\ calc.metrics = None /\ calc.risk_reward = None /\ ~calc.plotted

\* C2 amended: for every invalid pair only the validation error is reported
\* (no metric, no diagram), and max loss, breakeven and the P&L curve are not
\* computed; net credit and max profit are computed, unreported, exactly when
\* the two types are equal, because the calculator computes them before it
\* checks the strike order.
C2_NothingReported ==
    calc.pressed /\ ~CalcRule =>
        /\ calc.error # None
        /\ calc.metrics = None /\ calc.risk_reward = None /\ ~calc.plotted
        /\ calc.max_loss = None /\ calc.breakeven = None
        /\ calc.price_range = None /\ calc.pnl = None
        /\ calc.spread_name = None
        /\ calc.net_credit # None <=> calc.sell_type = calc.buy_type
        /\ calc.max_profit # None <=> calc.sell_type = calc.buy_type

\* C2 witness: a call pair in the wrong strike order has been rejected with
\* its net credit already computed.
C2_Witness ==
    /\ calc.pressed
    /\ calc.sell_type = Some("Call") /\ calc.buy_type = Some("Call")
    /\ Val(calc.sell_strike) > Val(calc.buy_strike)
    /\ calc.error = Some(MsgCallOrder)
    /\ calc.net_credit # None
    /\ calc.metrics = None

\* C3: for every accepted spread, any contracts >= 1 and any premiums,
\* net_credit = sell.premium - buy.premium, max_profit = net_credit * 100 *
\* contracts, max_loss = (|buy.strike - sell.strike| - net_credit) * 100 *
\* contracts, breakeven = sell.strike + net_credit for calls and sell.strike -
\* net_credit for puts; sell 100C @2.00 / buy 105C @0.50 / 1 contract gives
\* 1.50, 150, 350 and 101.50.  (Amounts in cents.)
C3_SpreadFormulas ==
    calc.valid_spread = Some(TRUE) =>
        LET sp == Val(calc.sell_premium)
            bp == Val(calc.buy_premium)
            ss == Val(calc.sell_strike)
            bs == Val(calc.buy_strike)
            n == Val(calc.contracts)
        IN /\ n >= 1
           /\ calc.net_credit = Some(sp - bp)
           /\ calc.max_profit = Some((sp - bp) * 100 * n)
           /\ calc.max_loss = Some((Abs(bs - ss) - (sp - bp)) * 100 * n)
           /\ calc.sell_type = Some("Call") => calc.breakeven = Some(ss + (sp - bp))
           /\ calc.sell_type = Some("Put") => calc.breakeven = Some(ss - (sp - bp))
           /\ (/\ calc.sell_type = Some("Call")
               /\ ss = 10000 /\ sp = 200 /\ bs = 10500 /\ bp = 50 /\ n = 1)
              => /\ calc.net_credit = Some(150)
                 /\ calc.max_profit = Some(15000)
                 /\ calc.max_loss = Some(35000)
                 /\ calc.breakeven = Some(10150)

\* C3 witness: an accepted put spread with a negative net credit and more
\* than one contract.
C3_Witness ==
    /\ calc.valid_spread = Some(TRUE)
    /\ calc.sell_type = Some("Put")
    /\ Val(calc.net_credit) < 0
    /\ Val(calc.contracts) > 1
    /\ calc.metrics # None

\* Intrinsic value of a leg at a price, both in the same unit.
Intrinsic(type, strike, price) ==
    IF type = "Call" THEN Max(0, price - strike) ELSE Max(0, strike - price)

\* C4: the P&L curve is sampled over prices from min(strikes) * 0.9 to
\* max(strikes) * 1.1 and its value at each sampled price is (net_credit -
\* sell_leg_intrinsic(price) + buy_leg_intrinsic(price)) * contracts,
\* a function of the price and the position only.  (Per-share amounts in
\* 1/PriceDen cents and curve values in 1/PriceDen dollars, which takes up
\* the factor 100.)
C4_PnlCurve ==
    calc.pnl # None =>
        LET pr == Val(calc.price_range)
            pnl == Val(calc.pnl)
            type == Val(calc.sell_type)
            ss == Val(calc.sell_strike)
            bs == Val(calc.buy_strike)
            nc == Val(calc.sell_premium) - Val(calc.buy_premium)
            n == Val(calc.contracts)
        IN /\ calc.valid_spread = Some(TRUE)
           /\ DOMAIN pnl = DOMAIN pr
           /\ 10 * pr[1] = 9 * PriceDen * Min(ss, bs)
           /\ 10 * pr[Len(pr)] = 11 * PriceDen * Max(ss, bs)
           /\ \A i \in DOMAIN pr :
                /\ pr[1] <= pr[i] /\ pr[i] <= pr[Len(pr)]
                /\ pnl[i] = (PriceDen * nc
                             - Intrinsic(type, PriceDen * ss, pr[i])
                             + Intrinsic(type, PriceDen * bs, pr[i])) * n
           /\ \A i, j \in DOMAIN pr : pr[i] = pr[j] => pnl[i] = pnl[j]

\* C4 witness: a curve has been drawn with samples on both sides of both
\* strikes, so that each leg's intrinsic value is zero at some sample and
\* positive at another.
C4_Witness ==
    /\ calc.pnl # None
    /\ LET pr == Val(calc.price_range)
           ss == PriceDen * Val(calc.sell_strike)
           bs == PriceDen * Val(calc.buy_strike)
       IN /\ \E i \in DOMAIN pr : pr[i] < Min(ss, bs)
          /\ \E i \in DOMAIN pr : Min(ss, bs) < pr[i] /\ pr[i] < Max(ss, bs)
          /\ \E i \in DOMAIN pr : pr[i] > Max(ss, bs)

\* C5 as stated: for every accepted spread the P&L curve is produced whether
\* or not an underlying stock price has been fetched.
C5_CurveWithoutStockPrice ==
    calc.valid_spread = Some(TRUE) => calc.pnl # None /\ calc.plotted

----------------------------------------------------------------------------
(* Properties of the summary statistics *)

\* C6 as stated: when the call total is zero, the put/call ratio (of volume
\* and of open interest) is reported as an explicit "unavailable" value and
\* never as the number 0; checked on what aggregate_option_metrics returns.
C6_RatioUnavailableNotZero ==
    lib.fn = "aggregate_option_metrics" =>
        /\ lib.result.total_call_volume = 0 /\ lib.result.num_contracts > 0
              => lib.result.pc_ratio_volume # 0
        /\ lib.result.total_call_oi = 0 /\ lib.result.num_contracts > 0
              => lib.result.pc_ratio_oi # 0

\* C7 as stated: the sentiment label is "bearish" for an average ratio above
\* 1.2, "bullish" for one below 0.8 and "neutral" for one in [0.8, 1.2], and
\* no label other than these and "no data" is produced; checked on what
\* determine_market_sentiment returns for two positive ratios (hundredths).
C7_SentimentThresholds ==
    lib.fn = "determine_market_sentiment" =>
        /\ lib.result \in {"Bearish", "Bullish", "Neutral", "No Data"}
        /\ lib.pc_ratio_volume > 0 /\ lib.pc_ratio_oi > 0 =>
              LET twice_avg == lib.pc_ratio_volume + lib.pc_ratio_oi
              IN lib.result = IF twice_avg > 240 THEN "Bearish"
                              ELSE IF twice_avg < 160 THEN "Bullish"
                              ELSE "Neutral"

\* The average over the ratios whose denominator is non-zero, as a rational,
\* or None when there is no such ratio.
AverageOverValidRatios(total_put_volume, total_call_volume, total_put_oi, total_call_oi) ==
    IF total_call_volume # 0 /\ total_call_oi # 0
    THEN Some(<<total_put_volume * total_call_oi + total_put_oi * total_call_volume,
                2 * total_call_volume * total_call_oi>>)
    ELSE IF total_call_volume # 0 THEN Some(<<total_put_volume, total_call_volume>>)
    ELSE IF total_call_oi # 0 THEN Some(<<total_put_oi, total_call_oi>>)
    ELSE None

SameRational(a, b) ==
    \/ a = None /\ b = None
    \/ a # None /\ b # None /\ Val(a)[1] * Val(b)[2] = Val(b)[1] * Val(a)[2]

\* C8 as stated: the sentiment average of the dashboard is the mean of
\* exactly the ratios whose denominator (total call volume, total call open
\* interest) is non-zero, a ratio of value 0 included.
C8_AverageOverValidRatios ==
    dash.rendered =>
        SameRational(dash.avg_pc_ratio,
                     AverageOverValidRatios(dash.total_put_volume, dash.total_call_volume,
                                            dash.total_put_oi, dash.total_call_oi))

\* The sum of a column over the rows of one option type, row by row.
RECURSIVE SumOver(_, _, _)
SumOver(chain, type, col) ==
    IF chain = << >> THEN 0
    ELSE (IF Head(chain).type = type THEN Head(chain)[col] ELSE 0)
         + SumOver(Tail(chain), type, col)

\* C9: the four totals of the dashboard are the per-type sums of volume and
\* open interest over every contract of the stored chain, whatever strikes
\* the slider and the stock price select for display.
C9_TotalsOverEntireChain ==
    dash.rendered =>
        /\ dash.total_call_volume = SumOver(Val(option_chain), "call", "volume")
        /\ dash.total_call_oi = SumOver(Val(option_chain), "call", "open_interest")
        /\ dash.total_put_volume = SumOver(Val(option_chain), "put", "volume")
        /\ dash.total_put_oi = SumOver(Val(option_chain), "put", "open_interest")

\* C9's case: the display window leaves out a strike whose contracts have
\* volume and open interest.
C9_Witness ==
    /\ dash.rendered
    /\ Len(dash.display_strikes) < Len(dash.strikes)
    /\ \E i \in DOMAIN Val(option_chain) :
          LET r == Val(option_chain)[i]
          IN /\ \A j \in DOMAIN dash.display_strikes : dash.display_strikes[j] # r.strike
             /\ r.volume > 0 /\ r.open_interest > 0

\* C10: for a non-empty ascending list of unique strikes, the ATM strike
\* get_strike_range_around_atm finds is a strike of the list with the least
\* distance to the stock price, and the smaller one when two strikes are
\* equally near.
C10_AtmStrike ==
    lib.fn = "get_strike_range_around_atm" /\ lib.strikes # << >> =>
        LET atm == Val(lib.locals.atm_strike)
        IN /\ \E i \in DOMAIN lib.strikes : lib.strikes[i] = atm
           /\ \A i \in DOMAIN lib.strikes :
                 \/ Abs(atm - lib.current_price) < Abs(lib.strikes[i] - lib.current_price)
                 \/ /\ Abs(atm - lib.current_price) = Abs(lib.strikes[i] - lib.current_price)
                    /\ atm <= lib.strikes[i]

\* C10's case: two strikes of the list are equally near the stock price and
\* no strike is nearer.
C10_Witness ==
    /\ lib.fn = "get_strike_range_around_atm"
    /\ \E i, j \in DOMAIN lib.strikes :
          /\ lib.strikes[i] < lib.strikes[j]
          /\ lib.current_price - lib.strikes[i] = lib.strikes[j] - lib.current_price
          /\ \A k \in DOMAIN lib.strikes :
                Abs(lib.strikes[k] - lib.current_price)
                    >= lib.current_price - lib.strikes[i]

----------------------------------------------------------------------------
(* Properties of the display window *)

\* The 0-based index of the strike nearest to the price, the first one on a
\* tie.
NearestIndex(strikes, price) ==
    (CHOOSE i \in DOMAIN strikes :
        /\ \A j \in DOMAIN strikes : Abs(strikes[i] - price) <= Abs(strikes[j] - price)
        /\ \A j \in 1..(i - 1) : Abs(strikes[j] - price) > Abs(strikes[i] - price)) - 1

C12_FallbackOnEveryPath ==
    /\ lib.fn = "get_strike_range_around_atm"
    /\ lib.strikes # << >>
    /\ 100 * Abs(Val(lib.locals.atm_strike) - lib.current_price) > 20 * lib.current_price
    => lib.locals.result = lib.strikes

----------------------------------------------------------------------------
(* Properties of the bid/ask estimate *)

\* The claimed spread percentage, in tenths of a percent.
ClaimedSpreadPct(volume) ==
    CASE volume > 10000 -> 20
      [] 1000 < volume /\ volume <= 10000 -> 40
      [] 100 < volume /\ volume <= 1000 -> 80
      [] 10 < volume /\ volume <= 100 -> 150
      [] volume <= 10 -> 250

\* C13 as stated: for last_price > 0 the estimate uses the tiered spread
\* percentage and returns exactly bid = max(0.01, last_price -
\* last_price * spread_pct / 2) and ask = last_price + last_price *
\* spread_pct / 2.  (Compared in millionths of a dollar.)
C13_BidAskExact ==
    lib.fn = "estimate_bid_ask_spread" /\ lib.last_price > 0 =>
        LET half == (lib.last_price * ClaimedSpreadPct(lib.volume)) \div 2
        IN /\ 10000 * lib.result[1] = Max(10000, 1000 * lib.last_price - half)
           /\ 10000 * lib.result[2] = 1000 * lib.last_price + half

\* x (in cents) is a cent nearest to y (in millionths of a dollar).
NearestCent(x, y) == Abs(10000 * x - y) <= 5000

\* C13, amended: for last_price > 0 the estimate uses the tiered spread
\* percentage and returns bid = max(0.01, b) and ask = a, where b and a are
\* last_price - last_price * spread_pct / 2 and last_price + last_price *
\* spread_pct / 2 rounded to the nearest cent.
C13_BidAskRounded ==
    lib.fn = "estimate_bid_ask_spread" /\ lib.last_price > 0 =>
        LET half == (lib.last_price * ClaimedSpreadPct(lib.volume)) \div 2
        IN /\ \E b \in 0..(lib.last_price \div 10 + 1) :
                 /\ NearestCent(b, 1000 * lib.last_price - half)
                 /\ lib.result[1] = Max(1, b)
           /\ NearestCent(lib.result[2], 1000 * lib.last_price + half)

\* C13's case: the example of the specification, estimate_bid_ask(100, 50000)
\* = (99.0, 101.0).
C13_Witness ==
    /\ lib.fn = "estimate_bid_ask_spread"
    /\ lib.last_price = 100000 /\ lib.volume = 50000
    /\ lib.result = <<9900, 10100>>

\* C14: for last_price <= 0 and any volume the estimate is (0, 0); the
\* minimum bid of 0.01 is not applied.
C14_NoEstimate ==
    lib.fn = "estimate_bid_ask_spread" /\ lib.last_price <= 0 =>
        lib.result = <<0, 0>>

\* C14's case: the estimate was asked for a last price of 0 at a volume of
\* the most liquid tier.
C14_Witness ==
    /\ lib.fn = "estimate_bid_ask_spread"
    /\ lib.last_price = 0 /\ lib.volume > 10000
    /\ lib.result = <<0, 0>>

----------------------------------------------------------------------------
(* Properties of the moneyness classification *)

\* C15 as stated: for stock_price > 0 and strike > 0 exactly one of is_itm,
\* is_atm, is_otm is set; a call is ITM iff stock_price > strike * 1.005 and
\* OTM iff stock_price < strike * 0.995, a put the other way round; is_atm is
\* the complement, so that a price exactly on a band edge is ATM.
C15_MoneynessBand ==
    lib.fn = "calculate_moneyness" /\ lib.stock_price > 0 /\ lib.strike > 0 =>
        LET above == 200 * lib.stock_price > 201 * lib.strike
            below == 200 * lib.stock_price < 199 * lib.strike
            r == lib.result
        IN /\ r.is_itm = (IF lib.option_type = "call" THEN above ELSE below)
           /\ r.is_otm = (IF lib.option_type = "call" THEN below ELSE above)
           /\ r.is_atm = (~above /\ ~below)
           /\ \/ r.is_itm /\ ~r.is_atm /\ ~r.is_otm
              \/ ~r.is_itm /\ r.is_atm /\ ~r.is_otm
              \/ ~r.is_itm /\ ~r.is_atm /\ r.is_otm

\* C16 as stated: intrinsic_value is max(0, stock_price - strike) for a call
\* and max(0, strike - stock_price) for a put, whatever the inputs; it is
\* never negative, positive whenever is_itm and 0 whenever is_otm.
C16_IntrinsicEveryInput ==
    lib.fn = "calculate_moneyness" =>
        /\ lib.result.intrinsic_value =
              (IF lib.option_type = "call" THEN Max(0, lib.stock_price - lib.strike)
               ELSE Max(0, lib.strike - lib.stock_price))
        /\ lib.result.intrinsic_value >= 0
        /\ lib.result.is_itm => lib.result.intrinsic_value > 0
        /\ lib.result.is_otm => lib.result.intrinsic_value = 0

\* C16, amended: the same for stock_price > 0 and strike > 0; for any inputs
\* intrinsic_value is never negative, positive whenever is_itm and 0
\* whenever is_otm.
C16_IntrinsicValue ==
    lib.fn = "calculate_moneyness" =>
        /\ lib.stock_price > 0 /\ lib.strike > 0 =>
              lib.result.intrinsic_value =
                 (IF lib.option_type = "call" THEN Max(0, lib.stock_price - lib.strike)
                  ELSE Max(0, lib.strike - lib.stock_price))
        /\ lib.result.intrinsic_value >= 0
        /\ lib.result.is_itm => lib.result.intrinsic_value > 0
        /\ lib.result.is_otm => lib.result.intrinsic_value = 0

\* C16's case: the example classify(110, 100, call), ITM with intrinsic
\* value 10.
C16_Witness ==
    /\ lib.fn = "calculate_moneyness"
    /\ lib.stock_price = 880 /\ lib.strike = 800 /\ lib.option_type = "call"
    /\ lib.result.is_itm /\ lib.result.intrinsic_value = 80

\* C17: when stock_price <= 0 or strike <= 0 the result is moneyness_pct = 0,
\* intrinsic_value = 0 and no flag set, and in no other case are all three
\* flags false.
C17_CannotClassify ==
    lib.fn = "calculate_moneyness" =>
        /\ lib.stock_price <= 0 \/ lib.strike <= 0 =>
              /\ lib.result.moneyness_pct[1] = 0
              /\ lib.result.intrinsic_value = 0
              /\ ~lib.result.is_itm /\ ~lib.result.is_atm /\ ~lib.result.is_otm
        /\ ~lib.result.is_itm /\ ~lib.result.is_atm /\ ~lib.result.is_otm =>
              lib.stock_price <= 0 \/ lib.strike <= 0

\* C17's case: a call with a positive stock price and a strike of 0.
C17_Witness ==
    /\ lib.fn = "calculate_moneyness"
    /\ lib.stock_price > 0 /\ lib.strike = 0 /\ lib.option_type = "call"
    /\ lib.result = ZeroMoneyness

----------------------------------------------------------------------------
(* Properties of the Black-Scholes evaluator *)

\* C18: if T <= 0 or sigma <= 0, calculate_greeks raises nothing and returns
\* delta = gamma = theta = vega = rho = 0, for calls and puts and whatever S,
\* K and r are.
C18_DegenerateGreeks ==
    lib.fn = "calculate_greeks" /\ (lib.T <= 0 \/ lib.sigma <= 0) =>
        /\ lib.result.raised = "none"
        /\ \A g \in {"delta", "gamma", "theta", "vega", "rho"} :
              lib.result[g] = Fin(0)

\* C18's case: a put with sigma = 0, T > 0 and a strike of 0, for which the
\* formulas would divide by zero.
C18_Witness ==
    /\ lib.fn = "calculate_greeks"
    /\ lib.sigma = 0 /\ lib.T > 0 /\ lib.K = 0 /\ lib.S > 0
    /\ lib.option_type = "put"
    /\ lib.result = ZeroGreeks

\* C19 as stated: given S <= 0 or K <= 0 together with T > 0 and sigma > 0,
\* calculate_greeks fails with an error: it returns neither numbers nor NaN.
C19_InvalidInputFails ==
    /\ lib.fn = "calculate_greeks"
    /\ lib.S <= 0 \/ lib.K <= 0
    /\ lib.T > 0 /\ lib.sigma > 0
    => lib.result.raised # "none"

\* C20: for S > 0, K > 0, T > 0 and sigma > 0 the call price less the put
\* price is S - K * exp(-r * T) within 1e-6, which is 100 units of 1/Scale^2.
C20_PutCallParity ==
    /\ lib.fn = "_black_scholes_price"
    /\ lib.S > 0 /\ lib.K > 0 /\ lib.T > 0 /\ lib.sigma > 0
    => /\ lib.call.raised = "none" /\ lib.put.raised = "none"
       /\ lib.call.price.k = "fin" /\ lib.put.price.k = "fin"
       /\ Abs((lib.call.price.v - lib.put.price.v)
              - (lib.S * Scale * Scale
                 - lib.K * ExpNeg(RoundDiv(lib.r * lib.T, 4)) * Scale))
            <= 100

\* C20's case: an in-the-money call with a positive rate, both prices
\* positive.
C20_Witness ==
    /\ lib.fn = "_black_scholes_price"
    /\ lib.S > lib.K /\ lib.K > 0 /\ lib.T > 0 /\ lib.sigma > 0 /\ lib.r > 0
    /\ lib.call.price.v > 0 /\ lib.put.price.v > 0

----------------------------------------------------------------------------
(* Properties of the Greeks, checked under SpecLib *)

GreekNames == {"delta", "gamma", "theta", "vega", "rho"}
OtherType(option_type) == IF option_type = "call" THEN "put" ELSE "call"

\* C21: for S > 0, K > 0, T > 0 and sigma > 0 calculate_greeks returns five
\* numbers in units of four decimals (none is NaN or infinite and nothing is
\* raised); gamma and vega are non-negative and are the ones returned for the
\* other option type on the same arguments; the delta of a call is in [0, 1]
\* and the delta of a put in [-1, 0].
C21_GreekRanges ==
    (lib.fn = "calculate_greeks" /\ lib.S > 0 /\ lib.K > 0 /\ lib.T > 0 /\ lib.sigma > 0) =>
        /\ lib.result.raised = "none"
        /\ \A g \in GreekNames : lib.result[g].k = "fin" /\ lib.result[g].v \in Int
        /\ lib.result.gamma.v >= 0
        /\ lib.result.vega.v >= 0
        /\ \A other \in calculate_greeks(lib.S, lib.K, lib.T, lib.r, lib.sigma,
                                        OtherType(lib.option_type)) :
              /\ other.gamma = lib.result.gamma
              /\ other.vega = lib.result.vega
        /\ lib.option_type = "call" =>
              lib.result.delta.v >= 0 /\ lib.result.delta.v <= Scale
        /\ lib.option_type = "put" =>
              lib.result.delta.v >= 0 - Scale /\ lib.result.delta.v <= 0

\* C21 witness: the Greeks of a put on valid arguments, with a delta strictly
\* inside (-1, 0) and a positive gamma and vega.
C21_Witness ==
    /\ lib.fn = "calculate_greeks"
    /\ lib.S > 0 /\ lib.K > 0 /\ lib.T > 0 /\ lib.sigma > 0
    /\ lib.option_type = "put"
    /\ lib.result.delta.v < 0 /\ lib.result.delta.v > 0 - Scale
    /\ lib.result.gamma.v > 0 /\ lib.result.vega.v > 0

----------------------------------------------------------------------------
(* Properties of the chain frames, checked under SpecLib *)

\* C22: _merge_option_data, format_option_chain_for_display and the
\* dashboard's check of the required columns leave every chain passed to
\* them with the columns, rows and values it had before the call.
C22_SourcesNotMutated ==
    /\ lib.fn = "_merge_option_data" =>
          lib.after.s3_data = lib.s3_data /\ lib.after.api_data = lib.api_data
    /\ lib.fn = "format_option_chain_for_display" =>
          lib.after.option_chain = lib.option_chain
    /\ lib.fn = "required_columns_check" =>
          lib.after.option_chain = lib.option_chain

----------------------------------------------------------------------------
(* Properties of the stored chain, checked under SpecDash *)

----------------------------------------------------------------------------
(* Properties of the client, checked under SpecApi *)

\* C24: the bid and the ask of every row of a chain enriched from the S3
\* file are a pair estimate_bid_ask_spread returns for the row's last price
\* and volume.
C24_S3BidAskIsEstimate ==
    (lib.fn = "get_option_chain" /\ lib.pc = "returned") =>
        \A i \in 1..Len(lib.result.rows) :
           LET row == lib.result.rows[i]
           IN row["data_source"] = Some("s3_flatfiles") =>
                 <<Val(row["bid"]), Val(row["ask"])>>
                    \in estimate_bid_ask_spread(Val(row["last"]), Val(row["volume"]))

\* C25: get_option_chain returns the frame of the S3 path exactly when the
\* client has an S3 client, an as_of_date is given and that frame is not
\* empty; otherwise it returns the rows of the snapshot for the expiration
\* or, when the snapshot has no results, the contracts of the skeleton; all
\* rows of the frame returned carry one data_source; and a frame without
\* rows has the basic columns.
C25_S3FirstNeverFails ==
    (lib.fn = "get_option_chain" /\ lib.pc = "returned") =>
        LET result == lib.result
            tags == {result.rows[i]["data_source"] : i \in 1..Len(result.rows)}
            from_s3 == api.s3_client /\ lib.as_of_date # None /\ ~FrameEmpty(lib.s3_data)
            matching == SelectSeq(lib.snapshot,
                                  LAMBDA r : r.expiration_date = lib.expiration)
        IN /\ from_s3 => result = lib.s3_data /\ tags = {Some("s3_flatfiles")}
           /\ (~from_s3 /\ lib.snapshot # << >>) =>
                 Len(result.rows) = Len(matching) /\ tags \subseteq {Some("rest_api")}
           /\ (~from_s3 /\ lib.snapshot = << >>) =>
                 Len(result.rows) = Len(lib.all_contracts)
                 /\ tags \subseteq {Some("skeleton")}
           /\ Cardinality(tags) <= 1
           /\ FrameEmpty(result) =>
                 result = Frame(<<"ticker", "type", "strike", "expiration", "bid",
                                  "ask", "last", "volume", "open_interest">>, << >>)

\* C25: a call with an S3 client and an as_of_date has fetched the stock
\* price for the S3 rows, got no frame from them and returned the rows of
\* the snapshot.
C25_Witness ==
    /\ lib.fn = "get_option_chain"
    /\ lib.pc = "returned"
    /\ api.s3_client
    /\ lib.as_of_date # None
    /\ api._price_cache[<<lib.ticker, Val(lib.as_of_date)>>] # None
    /\ FrameEmpty(lib.s3_data)
    /\ Len(lib.result.rows) > 0
    /\ lib.result.rows[1]["data_source"] = Some("rest_api")

----------------------------------------------------------------------------
(* Further properties of the estimator, checked under SpecLib *)

\* C26 as stated: for every last_price > 0 and every volume the pair
\* returned has 0 < bid <= last_price <= ask.  (The pair is in cents, the
\* last price in thousandths of a dollar.)
C26_BidBelowAskAbove ==
    lib.fn = "estimate_bid_ask_spread" /\ lib.last_price > 0 =>
        /\ 0 < lib.result[1]
        /\ 10 * lib.result[1] <= lib.last_price
        /\ lib.last_price <= 10 * lib.result[2]

\* C26, amended: for every last_price > 0 and every volume the bid is
\* positive, and when the last price is a whole number of cents the pair has
\* bid <= last_price <= ask; a last price below 0.01 gets the bid 0.01.
C26_OrderedOnWholeCents ==
    lib.fn = "estimate_bid_ask_spread" /\ lib.last_price > 0 =>
        /\ 0 < lib.result[1]
        /\ lib.last_price % 10 = 0 =>
              /\ 10 * lib.result[1] <= lib.last_price
              /\ lib.last_price <= 10 * lib.result[2]
        /\ lib.last_price < 10 => lib.result[1] = 1

\* C26's case: a last price of exactly 0.01 in the least liquid tier, where
\* the minimum bid applies and the ask rounds down to the last price.
C26_Witness ==
    /\ lib.fn = "estimate_bid_ask_spread"
    /\ lib.last_price = 10 /\ lib.volume <= 10
    /\ lib.result = <<1, 1>>

----------------------------------------------------------------------------
(* Further properties of the Credit Spread Calculator, checked under SpecSpread *)

\* C27: for every accepted spread the P&L at every price lies between
\* -max_loss and max_profit; it is max_profit at every price on the
\* out-of-the-money side of the sell strike and -max_loss at every price
\* beyond the buy strike.  The prices are those sampled, when the curve is
\* drawn, and others below, at, between and above the strikes.  (Prices in
\* 1/PriceDen cents, P&L in 1/PriceDen dollars; max_profit and max_loss are
\* whole dollars times 100.)
C27_PnlBetweenLossAndProfit ==
    calc.valid_spread = Some(TRUE) =>
        LET type == Val(calc.sell_type)
            ss == Val(calc.sell_strike)
            bs == Val(calc.buy_strike)
            nc == Val(calc.net_credit)
            n == Val(calc.contracts)
            top == PriceDen * (Val(calc.max_profit) \div 100)
            bottom == 0 - PriceDen * (Val(calc.max_loss) \div 100)
            pr == IF calc.price_range # None THEN Val(calc.price_range) ELSE << >>
            prices == {pr[i] : i \in DOMAIN pr}
                      \cup {PriceDen * c : c \in {0, ss - 1, ss, ss + 1, (ss + bs) \div 2,
                                                  bs - 1, bs, bs + 1, 2 * Max(ss, bs)}}
            Pnl(price) == position_pnl(type, ss, bs, nc, n, price)
        IN /\ Val(calc.max_profit) % 100 = 0 /\ Val(calc.max_loss) % 100 = 0
           /\ \A price \in prices :
                /\ bottom <= Pnl(price) /\ Pnl(price) <= top
                /\ (IF type = "Call" THEN price <= PriceDen * ss
                    ELSE price >= PriceDen * ss) => Pnl(price) = top
                /\ (IF type = "Call" THEN price >= PriceDen * bs
                    ELSE price <= PriceDen * bs) => Pnl(price) = bottom
           /\ calc.pnl # None =>
                 \A i \in DOMAIN pr : Val(calc.pnl)[i] = Pnl(pr[i])

\* C27's case: the curve of an accepted spread has been drawn, with a sample
\* where the P&L is max_profit, one where it is -max_loss and one strictly
\* between the two.
C27_Witness ==
    /\ calc.valid_spread = Some(TRUE)
    /\ calc.pnl # None
    /\ LET pnl == Val(calc.pnl)
           top == PriceDen * (Val(calc.max_profit) \div 100)
           bottom == 0 - PriceDen * (Val(calc.max_loss) \div 100)
       IN /\ \E i \in DOMAIN pnl : pnl[i] = top
          /\ \E i \in DOMAIN pnl : pnl[i] = bottom
          /\ \E i \in DOMAIN pnl : bottom < pnl[i] /\ pnl[i] < top

\* C28 as stated: for every accepted spread the P&L at the reported
\* breakeven price is 0.
C28_ZeroAtBreakeven ==
    calc.valid_spread = Some(TRUE) =>
        position_pnl(Val(calc.sell_type), Val(calc.sell_strike), Val(calc.buy_strike),
                     Val(calc.net_credit), Val(calc.contracts),
                     PriceDen * Val(calc.breakeven)) = 0

\* C28, amended: for every accepted spread whose net credit is at least 0
\* and at most the strike width the P&L at the reported breakeven price is
\* 0; with a negative net credit it is max_profit there, and with a net
\* credit above the width it is -max_loss.
C28_ZeroAtBreakevenWithinWidth ==
    calc.valid_spread = Some(TRUE) =>
        LET nc == Val(calc.net_credit)
            width == Abs(Val(calc.buy_strike) - Val(calc.sell_strike))
            at_breakeven ==
                position_pnl(Val(calc.sell_type), Val(calc.sell_strike),
                             Val(calc.buy_strike), nc, Val(calc.contracts),
                             PriceDen * Val(calc.breakeven))
        IN /\ (0 <= nc /\ nc <= width) => at_breakeven = 0
           /\ nc < 0 => at_breakeven = PriceDen * (Val(calc.max_profit) \div 100)
           /\ nc > width => at_breakeven = 0 - PriceDen * (Val(calc.max_loss) \div 100)

\* C28's case: an accepted spread with a positive net credit below the
\* strike width, so that the breakeven lies strictly between the strikes.
C28_Witness ==
    /\ calc.valid_spread = Some(TRUE)
    /\ Val(calc.net_credit) > 0
    /\ Val(calc.net_credit) < Abs(Val(calc.buy_strike) - Val(calc.sell_strike))
    /\ Min(Val(calc.sell_strike), Val(calc.buy_strike)) < Val(calc.breakeven)
    /\ Val(calc.breakeven) < Max(Val(calc.sell_strike), Val(calc.buy_strike))

----------------------------------------------------------------------------
(* Properties of the memo dictionaries and of the loops, checked under
   SpecApi and FairSpecApi *)

\* C29: a memo dictionary gets a value for a key only from a lookup that
\* succeeded, so that after a lookup that failed or obtained nothing the
\* next call for the key makes the request again; a call for a key that has
\* a value returns that value without a request; and a value, once stored,
\* stays.
C29_MemoNeverStoresFailure ==
    [][/\ \A key \in CacheKeys :
            /\ api._price_cache[key] # None =>
                  api'._price_cache[key] = api._price_cache[key]
            /\ api._expiration_cache[key] # None =>
                  api'._expiration_cache[key] = api._expiration_cache[key]
       /\ (lib = LibIdle /\ lib'.fn = "get_stock_price") =>
             LET before == api._price_cache[lib'.key]
                 after == api'._price_cache[lib'.key]
             IN /\ before # None => lib'.result = before /\ ~lib'.requested
                /\ before = None =>
                      /\ lib'.requested
                      /\ after = lib'.result
       /\ (lib = LibIdle /\ lib'.fn = "get_available_expirations") =>
             LET before == api._expiration_cache[lib'.key]
                 after == api'._expiration_cache[lib'.key]
             IN /\ before # None =>
                      /\ lib'.pc = "returned"
                      /\ lib'.result = Val(before)
                      /\ lib'.requests = 0
                /\ (before = None /\ lib'.pc = "returned") =>
                      lib'.result # << >> /\ after = Some(lib'.result)
                /\ (before = None /\ lib'.pc = "loop") => after = None
       /\ (lib.fn = "get_available_expirations" /\ lib.pc = "done"
           /\ lib'.fn = "get_available_expirations") =>
             LET response == Val(lib.response)
                 failed == \/ response.raised
                           \/ response.status_code # 200
                           \/ lib'.result = << >>
                 after == api'._expiration_cache[lib.key]
             IN /\ failed => after = None
                /\ ~failed => after = Some(lib'.result)
      ]_vars

\* The steps of the two loops and the lists returned: a pass of the loop of
\* get_available_expirations is the last one exactly when its request
\* raised, got a status other than 200 or a page without next_url, or 50
\* distinct expirations are known after it; a pass of the loop of
\* _get_contracts_skeleton is the last one exactly in the first three
\* cases; and the expirations returned are those found, each once, in
\* ascending order.
LoopSteps ==
    /\ (lib.fn = "get_available_expirations" /\ lib.pc = "loop") =>
          /\ lib'.fn = lib.fn
          /\ lib'.requests = lib.requests + 1
          /\ lib'.pc = IF \/ LastPage(Val(lib'.response))
                          \/ Cardinality(lib'.expirations) >= MaxExpirations
                       THEN "done" ELSE "loop"
    /\ (lib.fn = "get_option_chain" /\ lib.pc = "loop") =>
          /\ lib'.fn = lib.fn
          /\ lib'.requests = lib.requests + 1
          /\ lib'.pc = IF LastPage(Val(lib'.response)) THEN "done" ELSE "loop"
    /\ (lib' # LibIdle /\ lib'.fn = "get_available_expirations"
        /\ lib'.pc = "returned") =>
          LET result == lib'.result
          IN /\ \A i, j \in 1..Len(result) : i < j => result[i] < result[j]
             /\ lib.fn = lib'.fn =>
                   {result[i] : i \in 1..Len(result)} = lib.expirations

\* A call is in one of the two loops, or has left it and is about to return.
InLoop ==
    /\ lib.fn \in {"get_available_expirations", "get_option_chain"}
    /\ lib.pc \in {"loop", "done"}

Returned ==
    /\ lib.fn \in {"get_available_expirations", "get_option_chain"}
    /\ lib.pc = "returned"

\* C30: the loops stop as LoopSteps says, the expirations returned are
\* distinct and ascending, and, the server sending a last page after at
\* most MaxPages requests, every call that enters a loop returns.
C30_PaginationTerminates == [][LoopSteps]_vars /\ (InLoop ~> Returned)

\* C30's case: a call of get_available_expirations has returned after a
\* second page that still had a next_url, because 50 or more expirations
\* were known by then.
C30_Witness ==
    /\ lib.fn = "get_available_expirations"
    /\ lib.pc = "returned"
    /\ lib.requests = 2
    /\ ~LastPage(Val(lib.response))
    /\ Len(lib.result) >= MaxExpirations

============================================================================
